---- MODULE Spec2Model ----
(***************************************************************************)
(* Plate-candidate extraction and matching engine (src/src/plate_parser.py) *)
(* modelled as a state machine.  Texts are sequences of one-character       *)
(* strings; confidences are exact fractions [n, d] in lowest terms;         *)
(* bounding-box coordinates are integers in hundredths of the image width.  *)
(***************************************************************************)
EXTENDS Integers, Sequences, FiniteSets, TLC

(* ------------------------------ characters ------------------------------ *)

UpperSeq ==
  <<"A","B","C","D","E","F","G","H","I","J","K","L","M",
    "N","O","P","Q","R","S","T","U","V","W","X","Y","Z">>

LowerSeq ==
  <<"a","b","c","d","e","f","g","h","i","j","k","l","m",
    "n","o","p","q","r","s","t","u","v","w","x","y","z">>

UpperLetters == {UpperSeq[i] : i \in DOMAIN UpperSeq}

LowerLetters == {LowerSeq[i] : i \in DOMAIN LowerSeq}

Letters == UpperLetters \cup LowerLetters

Digits == {"0","1","2","3","4","5","6","7","8","9"}

Alnum == Letters \cup Digits

\* characters matched by \s and removed by str.strip()
Whitespace == {" ", "\t", "\n"}

\* str.upper() on one character
CharUpper(c) ==
  IF c \in LowerLetters
    THEN UpperSeq[CHOOSE i \in DOMAIN LowerSeq : LowerSeq[i] = c]
    ELSE c

\* str.lower() on one character
CharLower(c) ==
  IF c \in UpperLetters
    THEN LowerSeq[CHOOSE i \in DOMAIN UpperSeq : UpperSeq[i] = c]
    ELSE c

(* ------------------------------- strings -------------------------------- *)

RECURSIVE StrUpper(_)
StrUpper(s) ==
  IF s = <<>> THEN <<>> ELSE <<CharUpper(Head(s))>> \o StrUpper(Tail(s))

RECURSIVE StrLower(_)
StrLower(s) ==
  IF s = <<>> THEN <<>> ELSE <<CharLower(Head(s))>> \o StrLower(Tail(s))

\* str.replace(c, '') for every c in chars
RECURSIVE RemoveChars(_, _)
RemoveChars(s, chars) ==
  IF s = <<>> THEN <<>>
  ELSE IF Head(s) \in chars THEN RemoveChars(Tail(s), chars)
  ELSE <<Head(s)>> \o RemoveChars(Tail(s), chars)

RECURSIVE LStrip(_, _)
LStrip(s, chars) ==
  IF s # <<>> /\ Head(s) \in chars THEN LStrip(Tail(s), chars) ELSE s

RECURSIVE RStrip(_, _)
RStrip(s, chars) ==
  IF s # <<>> /\ s[Len(s)] \in chars
    THEN RStrip(SubSeq(s, 1, Len(s) - 1), chars)
    ELSE s

\* str.strip(chars)
Strip(s, chars) == RStrip(LStrip(s, chars), chars)

\* str.startswith(p)
StartsWith(s, p) == Len(s) >= Len(p) /\ SubSeq(s, 1, Len(p)) = p

\* the 'in' operator on strings: p occurs in s
Contains(s, p) ==
  \E i \in 1..(Len(s) - Len(p) + 1) : SubSeq(s, i, i + Len(p) - 1) = p

\* ' '.join(parts)
RECURSIVE JoinSpace(_)
JoinSpace(parts) ==
  IF parts = <<>> THEN <<>>
  ELSE IF Len(parts) = 1 THEN parts[1]
  ELSE parts[1] \o <<" ">> \o JoinSpace(Tail(parts))

\* re.sub(r'\s+', ' ', s): every run of whitespace becomes one space
RECURSIVE CollapseSpaces(_)
CollapseSpaces(s) ==
  IF s = <<>> THEN <<>>
  ELSE IF Head(s) \in Whitespace
    THEN <<" ">> \o CollapseSpaces(LStrip(s, Whitespace))
    ELSE <<Head(s)>> \o CollapseSpaces(Tail(s))

\* min(...) and max(...) of a non-empty set of integers
Min(S) == CHOOSE x \in S : \A y \in S : x <= y

Max(S) == CHOOSE x \in S : \A y \in S : y <= x

(* ------------------- regular expressions of the module ------------------ *)
(* A pattern is a sequence of items [cls, lo, hi]: between lo and hi        *)
(* characters of the class cls; hi = -1 stands for "no upper limit".  The   *)
(* patterns of the module are all of this shape.                            *)

Item(cls, lo, hi) == [cls |-> cls, lo |-> lo, hi |-> hi]

Lit(c) == Item({c}, 1, 1)

\* length of the run of characters of cls that starts at position i of s
RECURSIVE RunLen(_, _, _)
RunLen(s, i, cls) ==
  IF i <= Len(s) /\ s[i] \in cls THEN 1 + RunLen(s, i + 1, cls) ELSE 0

\* positions at which a match of items k.. of pat that starts at i can end
RECURSIVE MatchEnds(_, _, _, _)
MatchEnds(pat, k, s, i) ==
  IF k > Len(pat) THEN {i}
  ELSE UNION {MatchEnds(pat, k + 1, s, i + n) :
                n \in {m \in pat[k].lo..RunLen(s, i, pat[k].cls) :
                         pat[k].hi = -1 \/ m <= pat[k].hi}}

\* re.match of an "^...$" pattern (s holds no newline)
FullMatch(pat, s) == (Len(s) + 1) \in MatchEnds(pat, 1, s, 1)

\* re.match of a pattern without "$"
PrefixMatch(pat, s) == MatchEnds(pat, 1, s, 1) # {}

(* ------------------------- module-level constants ----------------------- *)


\* Junk / noise words to ignore completely
NOISE_WORDS ==
  {<<"A","M","O","U","N","T">>,
   <<"A","N","D">>,
   <<"A","O">>,
   <<"A","R","M">>,
   <<"A","S","H","O","K">>,
   <<"A","S","H","O","K","I","L","E","Y","L","A","N","D">>,
   <<"A","T">>,
   <<"A","U","T","O">>,
   <<"B","E">>,
   <<"B","H","A","R","A","T","B","E","N","Z">>,
   <<"B","I","K","E">>,
   <<"B","U","S">>,
   <<"C","A","B">>,
   <<"C","A","R">>,
   <<"C","A","R","R","I","A","G","E">>,
   <<"C","A","R","R","I","E","R">>,
   <<"C","H">>,
   <<"C","I","I">>,
   <<"C","K">>,
   <<"C","L","A","S","S">>,
   <<"C","N","G">>,
   <<"C","O","N","T","R","A","C","T">>,
   <<"D","A","T","E">>,
   <<"D","E">>,
   <<"D","R","I","V","I","N","G">>,
   <<"E","I","C","H","E","R">>,
   <<"E","U","T","E","C","H">>,
   <<"E","U","T","E","C","H","6">>,
   <<"F","O","R">>,
   <<"F","R","E","S","H">>,
   <<"F","R","E","S","S">>,
   <<"G","O","O","D","S">>,
   <<"G","O","V","T">>,
   <<"H","I","C","L","E">>,
   <<"H","I","L","L">>,
   <<"H","I","R","E">>,
   <<"I","F">>,
   <<"I","N">>,
   <<"I","N","D">>,
   <<"I","S">>,
   <<"I","S","I">>,
   <<"I","S","U","Z","U">>,
   <<"I","T">>,
   <<"J","A","I">>,
   <<"K","I","A">>,
   <<"K","I","N","G">>,
   <<"K","O">>,
   <<"K","R","I","S","H","N","A">>,
   <<"L","A","K","S","H","M","I">>,
   <<"L","A","N","E">>,
   <<"L","C","V">>,
   <<"L","E","Y","L","A","N","D">>,
   <<"L","H","S">>,
   <<"L","I">>,
   <<"L","T","D">>,
   <<"M","A","H","I","N","D","R","A">>,
   <<"M","C">>,
   <<"M","E","O","N","A","M","E">>,
   <<"M","O","T","O","R">>,
   <<"N","D">>,
   <<"N","O">>,
   <<"N","Z","B">>,
   <<"O","F">>,
   <<"O","N">>,
   <<"P","L","A","T","E">>,
   <<"P","O">>,
   <<"P","O","L","I","C","E">>,
   <<"P","P">>,
   <<"P","R","O">>,
   <<"P","V","T">>,
   <<"R","A","N","G","E">>,
   <<"R","E">>,
   <<"R","H","S">>,
   <<"R","O","A","D">>,
   <<"R","O","C","K","E","T">>,
   <<"R","O","V","E","R">>,
   <<"S","A","N","T","O","S">>,
   <<"S","E","C","T","I","O","N">>,
   <<"S","I","G","N","A">>,
   <<"S","P","E","E","D">>,
   <<"S","U","P","E","R">>,
   <<"T","A","T","A">>,
   <<"T","H","E">>,
   <<"T","O">>,
   <<"T","R","U","C","K">>,
   <<"V","E","H","I","C","L","E">>,
   <<"Y","K">>,
   <<"Y","S">>}

\* Known Indian state/UT codes (2-letter)
INDIAN_STATE_CODES ==
  {<<"A","N">>, <<"A","P">>, <<"A","R">>, <<"A","S">>, <<"B","R">>, <<"C","G">>, <<"C","H">>,
   <<"D","D">>, <<"D","L">>, <<"G","A">>, <<"G","J">>, <<"H","P">>, <<"H","R">>, <<"J","H">>,
   <<"J","K">>, <<"K","A">>, <<"K","L">>, <<"L","A">>, <<"L","D">>, <<"M","H">>, <<"M","L">>,
   <<"M","N">>, <<"M","P">>, <<"M","Z">>, <<"N","L">>, <<"O","D">>, <<"P","B">>, <<"P","Y">>,
   <<"R","J">>, <<"S","K">>, <<"T","G">>, <<"T","N">>, <<"T","R">>, <<"T","S">>, <<"U","K">>,
   <<"U","P">>, <<"W","B">>}

\* Prefixes to strip before parsing
STRIP_PREFIXES == <<<<"(","N","D",")">>, <<"I","N","D">>, <<"N","O">>, <<"N","D">>>>

\* Common OCR confusables, used only in digit positions
OCR_DIGIT_FIXES ==
  [c \in {"O","I","l","S","B","G","D"} |->
     CASE c = "O" -> "0" [] c = "I" -> "1" [] c = "l" -> "1" [] c = "S" -> "5"
       [] c = "B" -> "8" [] c = "G" -> "6" [] c = "D" -> "0"]

\* Common OCR confusables, used only in letter positions
OCR_LETTER_FIXES ==
  [c \in {"0","1","5","8","6"} |->
     CASE c = "0" -> "O" [] c = "1" -> "I" [] c = "5" -> "S"
       [] c = "8" -> "B" [] c = "6" -> "G"]

\* Python's None, and the one-element wrapper of a value that is not None
None == <<>>

Some(x) == <<x>>

(* --------------------------- INDIAN_PATTERNS ---------------------------- *)

SepCls == {"-", "."} \cup Whitespace

L(lo, hi) == Item(UpperLetters, lo, hi)

D(lo, hi) == Item(Digits, lo, hi)

Sep01 == Item(SepCls, 0, 1)

Sep1 == Item(SepCls, 1, 1)

WS1 == Item(Whitespace, 1, 1)

WSPlus == Item(Whitespace, 1, -1)

INDIAN_PATTERNS ==
  << <<L(2,2), Sep01, D(2,2), Sep01, L(1,3), Sep01, D(3,4)>>,
     <<L(2,2), Sep01, D(2,2), Sep01, L(1,1), Sep01, D(4,4)>>,
     <<L(2,2), D(2,2), L(1,3), D(3,4)>>,
     <<L(2,2), WS1, D(2,2), WS1, L(1,2), WS1, D(4,5)>>,
     <<L(2,2), Sep01, D(2,2), L(1,1), Sep1, L(1,1), D(4,4)>>,
     <<L(2,2), Sep01, D(2,2), L(1,1), Sep1, D(4,5)>>,
     <<L(2,2), Sep01, D(2,2), L(1,1), Sep1, L(1,1), D(3,4)>>,
     <<L(2,2), WSPlus, D(2,2), WSPlus, L(1,2), WSPlus, D(3,4)>>,
     <<L(2,2), D(2,2), WS1, L(1,3), Sep01, D(3,4)>>,
     <<L(2,2), D(2,2), L(1,1), Sep1, D(4,4)>>,
     <<L(2,2), WS1, D(2,2), L(1,3), D(3,4)>>,
     <<L(2,2), WS1, D(2,2), WS1, L(1,1), WS1, L(1,1), D(4,4)>>,
     <<L(2,2), D(2,2), L(1,1), WS1, L(1,1), D(4,4)>>,
     <<L(2,2), D(2,2), L(2,2), WS1, D(3,4)>>,
     <<L(2,2), WS1, D(2,2), L(2,2), D(4,4)>> >>

(* ----------------------------- text cleaning ---------------------------- *)

PlateLit == <<"P","L","A","T","E",":">>

\* re.search(r'Plate:\s*(<cls>{6,15})', t, re.IGNORECASE): the payload
\* captured at start position p when "Plate:" is found there, else None.
\* \s* is greedy and gives whitespace back to the group while the group
\* would otherwise be shorter than 6.
\* The helper operators below take as parameters the values the code keeps
\* in local variables.

\* the group: the characters of cls from position start on, at most 15
OverlayGroup(t, start, run) ==
  SubSeq(t, start, start + (IF run > 15 THEN 15 ELSE run) - 1)

\* the payload when \s* keeps the longest whitespace run in ok
OverlayTake(t, after, ok, cls) ==
  IF ok = {} THEN None
  ELSE Some(OverlayGroup(t, after + Max(ok), RunLen(t, after + Max(ok), cls)))

OverlayAt(t, p, cls) ==
  IF ~(p + 5 <= Len(t) /\ StrUpper(SubSeq(t, p, p + 5)) = PlateLit) THEN None
  ELSE OverlayTake(t, p + 6,
                   {k \in 0..RunLen(t, p + 6, Whitespace) :
                      RunLen(t, p + 6 + k, cls) >= 6},
                   cls)

OverlayFirst(t, hits, cls) ==
  IF hits = {} THEN None ELSE OverlayAt(t, Min(hits), cls)

\* the leftmost match of the overlay marker, or None
OverlaySearch(t, cls) ==
  OverlayFirst(t, {p \in 1..Len(t) : OverlayAt(t, p, cls) # None}, cls)

\* one round of the prefix loop of clean_raw_text
PrefixFound(t, u, prefix) ==
  \/ StartsWith(u, prefix \o <<" ">>)
  \/ StartsWith(u, prefix \o <<"\t">>)
  \/ /\ StartsWith(u, prefix)
     /\ Len(t) > Len(prefix)
     /\ t[Len(prefix) + 1] \in Letters

StripPrefix(t, prefix) ==
  IF PrefixFound(t, StrUpper(t), prefix)
    THEN Strip(SubSeq(t, Len(prefix) + 1, Len(t)), Whitespace)
    ELSE t

RECURSIVE StripPrefixes(_, _)
StripPrefixes(t, prefixes) ==
  IF prefixes = <<>> THEN t
  ELSE StripPrefixes(StripPrefix(t, Head(prefixes)), Tail(prefixes))

JunkChars ==
  {"\"", "'", "(", ")", "[", "]", "{", "}", ".", ",", ";", ":", "!", "?", "*", "#", " "}

\* re.sub(r'(?<=[A-Za-z0-9])-(?=[A-Za-z0-9])', '', t)
RECURSIVE DropEmbeddedHyphens(_, _)
DropEmbeddedHyphens(t, i) ==
  IF i > Len(t) THEN <<>>
  ELSE IF t[i] = "-" /\ i > 1 /\ i < Len(t)
          /\ t[i - 1] \in Alnum /\ t[i + 1] \in Alnum
    THEN DropEmbeddedHyphens(t, i + 1)
  ELSE <<t[i]>> \o DropEmbeddedHyphens(t, i + 1)

\* t after the overlay step: the stripped payload when the marker matched
OverlayOr(plate_match, t) ==
  IF plate_match # None THEN Strip(plate_match[1], Whitespace) ELSE t

ExtractOverlay(t) == OverlayOr(OverlaySearch(t, Alnum \cup Whitespace), t)

clean_raw_text(text) ==
  IF text = <<>> THEN <<>>
  ELSE Strip(
         CollapseSpaces(
           DropEmbeddedHyphens(
             RemoveChars(
               Strip(Strip(StripPrefixes(ExtractOverlay(Strip(text, Whitespace)),
                                         STRIP_PREFIXES),
                           JunkChars),
                     {"-"}),
               {"."}),
             1)),
         Whitespace)

(* ------------------------------ OCR repair ------------------------------ *)

\* one of the two while loops of fix_ocr_confusables: from index idx on,
\* apply fixes to the next two characters that are not ' ' or '-'
RECURSIVE FixWalk(_, _, _, _)
FixWalk(result, idx, char_idx, fixes) ==
  IF ~(idx <= Len(result) /\ char_idx < 2) THEN [result |-> result, idx |-> idx]
  ELSE IF result[idx] \in {" ", "-"}
    THEN FixWalk(result, idx + 1, char_idx, fixes)
  ELSE IF result[idx] \in DOMAIN fixes
    THEN FixWalk([result EXCEPT ![idx] = fixes[result[idx]]],
                 idx + 1, char_idx + 1, fixes)
  ELSE FixWalk(result, idx + 1, char_idx + 1, fixes)

\* the second loop started again at the first character
FixDigitsFromStart(w) == FixWalk(w.result, 1, 0, OCR_DIGIT_FIXES).result

\* the second loop, started where the first one stopped
FixDigits(w) == FixWalk(w.result, w.idx, 0, OCR_DIGIT_FIXES).result

\* result = list(clean) instead of list(text): the separators are lost
FixGuardedStripped(text, n) ==
  IF n < 7 \/ n > 13 THEN text
  ELSE FixDigits(FixWalk(RemoveChars(text, {" ", "-"}), 1, 0, OCR_LETTER_FIXES))

FixGuarded(text, n) ==
  IF n < 7 \/ n > 13 THEN text
  ELSE FixDigits(FixWalk(text, 1, 0, OCR_LETTER_FIXES))

fix_ocr_confusables(text) == FixGuarded(text, Len(RemoveChars(text, {" ", "-"})))

(* -------------------------------- noise --------------------------------- *)

TimePatterns ==
  { <<D(1,2), Lit(":"), D(2,2)>>,
    <<D(1,2), Lit(":"), D(2,2), Lit(":"), D(2,2)>> }

DatePattern == <<D(4,4), Lit("-"), D(2,2), Lit("-"), D(2,2)>>

SpeedPattern ==
  <<D(1,-1), Item(Whitespace, 0, -1), Lit("K"), Lit("M"), Lit("/"), Lit("H")>>

SidePattern(side) ==
  <<Item(Digits \cup {"+"}, 0, -1), Item(Whitespace, 0, -1)>> \o
  <<Lit(side[1]), Lit(side[2]), Lit(side[3])>>

\* the tests of is_noise on t = text.strip().upper().rstrip('.-:,;!?')
NoiseTests(t) ==
  \/ Len(t) <= 1
  \/ t \in NOISE_WORDS
  \/ \E p \in TimePatterns : FullMatch(p, t)
  \/ PrefixMatch(DatePattern, t)
  \/ \E p \in {SpeedPattern, SidePattern(<<"R","H","S">>), SidePattern(<<"L","H","S">>)} :
        FullMatch(p, StrUpper(t))
  \/ Contains(t, <<"@">>)
  \/ Contains(StrLower(t), <<"g","m","a","i","l">>)

is_noise(text) ==
  NoiseTests(RStrip(StrUpper(Strip(text, Whitespace)),
                    {".", "-", ":", ",", ";", "!", "?"}))

(* ---------------------------- plate matching ---------------------------- *)

\* self.custom_pattern of an engine built without a pattern
NoPattern == [given |-> FALSE, items |-> <<>>, anchored |-> FALSE]

\* re.compile(pattern, re.IGNORECASE) for a pattern "^<items>" (anchored
\* FALSE) or "^<items>$" (anchored TRUE) whose classes hold upper-case letters
CustomPattern(items, anchored) ==
  [given |-> TRUE, items |-> items, anchored |-> anchored]

\* a pattern string that re.compile rejects
BadPattern == [given |-> TRUE, items |-> <<>>, anchored |-> TRUE, bad |-> TRUE]

\* a constructor that compiles the pattern only when it is first used
CompileLater(pattern) == FALSE

\* "if pattern: re.compile(pattern, re.IGNORECASE)" raises re.error
CompileRaises(pattern) == pattern.given /\ "bad" \in DOMAIN pattern

\* custom_pattern.match(text)
CustomMatch(custom_pattern, t) ==
  IF custom_pattern.anchored
    THEN FullMatch(custom_pattern.items, t)
    ELSE PrefixMatch(custom_pattern.items, t)

\* the loop over self.compiled_patterns
AnyPattern(patterns, t) == \E k \in DOMAIN patterns : FullMatch(patterns[k], t)

\* matches_plate_pattern falling back on the built-in list when the custom
\* pattern does not match
MatchesBuiltInToo(self, text) ==
  \/ self.custom_pattern.given /\ CustomMatch(self.custom_pattern, StrUpper(text))
  \/ AnyPattern(INDIAN_PATTERNS, Strip(StrUpper(text), Whitespace))

matches_plate_pattern(self, text) ==
  IF self.custom_pattern.given
    THEN CustomMatch(self.custom_pattern, StrUpper(text))
    ELSE AnyPattern(INDIAN_PATTERNS, Strip(StrUpper(text), Whitespace))

StateCodeOf(clean) ==
  IF Len(clean) >= 2 THEN SubSeq(clean, 1, 2) \in INDIAN_STATE_CODES ELSE FALSE

validate_state_code(text) == StateCodeOf(StrUpper(RemoveChars(text, {" ", "-"})))

(* --------------------------- binary64 numbers --------------------------- *)
(* A float of the program whose value is not a small fraction is kept as    *)
(* its binary64 value: the bits of its significand, highest first, and the  *)
(* exponent of the lowest bit, so the value is bits * 2^e.  The record is   *)
(* canonical: no zero bit at either end, and e = 0 for the value 0.         *)
(* Sums and quotients are rounded to 53 bits, ties to even, as the          *)
(* processor rounds them.  The values of the program are far from the       *)
(* subnormal and the overflow range, which are left out.  The bit strings   *)
(* are added and divided half by half, which keeps the evaluation shallow.  *)

\* the positions of the one bits
Ones(b) == {i \in DOMAIN b : b[i] = 1}

DropLeadingZeros(b) == IF Ones(b) = {} THEN <<>> ELSE SubSeq(b, Min(Ones(b)), Len(b))

\* the canonical record of bits * 2^e
Canonical(b, e) ==
  IF Ones(b) = {} THEN [bits |-> <<>>, e |-> 0]
  ELSE [bits |-> SubSeq(b, Min(Ones(b)), Max(Ones(b))), e |-> e + Len(b) - Max(Ones(b))]

Zeros(k) == [i \in 1..k |-> 0]

\* the bits of x with the lowest bit at exponent e (e <= x.e), n bits long
Aligned(x, e, n) == Zeros(n - Len(x.bits) - (x.e - e)) \o x.bits \o Zeros(x.e - e)

\* the higher bits of a sum in front of its lower bits
HighLow(high, low) == [bits |-> high.bits \o low.bits, carry |-> high.carry]

RECURSIVE AddRange(_, _, _, _, _)
RECURSIVE AddHigh(_, _, _, _, _)

\* the bits lo..mid of a + b once the lower bits are added
AddHigh(a, b, lo, mid, low) ==
  IF low.carry = 0 THEN HighLow(AddRange(a, b, lo, mid, 0), low)
  ELSE HighLow(AddRange(a, b, lo, mid, 1), low)

\* the bits lo..hi of a + b + carry and the carry out of them
AddRange(a, b, lo, hi, carry) ==
  IF lo = hi
    THEN [bits |-> <<(a[lo] + b[lo] + carry) % 2>>, carry |-> (a[lo] + b[lo] + carry) \div 2]
    ELSE AddHigh(a, b, lo, (lo + hi) \div 2, AddRange(a, b, (lo + hi) \div 2 + 1, hi, carry))

WithCarry(sum) == <<sum.carry>> \o sum.bits

\* a + b + carry for two bit strings of one length, one bit longer
AddBits(a, b, carry) ==
  IF Len(a) = 0 THEN <<carry>> ELSE WithCarry(AddRange(a, b, 1, Len(a), carry))

\* b + 1
Incremented(b) == AddBits(b, Zeros(Len(b)), 1)

\* round to nearest, ties to even: the 53 highest bits of b, one more when
\* the rest is above the half, or at the half with the last kept bit odd
RoundUp(b, sticky) ==
  /\ b[54] = 1
  /\ \/ sticky
     \/ \E i \in 55..Len(b) : b[i] = 1
     \/ b[53] = 1

Rounded(b, e, sticky) ==
  IF Len(b) <= 53 THEN Canonical(b, e)
  ELSE IF RoundUp(b, sticky)
    THEN Canonical(Incremented(SubSeq(b, 1, 53)), e + Len(b) - 53)
    ELSE Canonical(SubSeq(b, 1, 53), e + Len(b) - 53)

\* the width two numbers need when aligned at the exponent e
Width(x, y, e) == Max({Len(x.bits) + (x.e - e), Len(y.bits) + (y.e - e)})

SumAt(x, y, e) ==
  Rounded(DropLeadingZeros(AddBits(Aligned(x, e, Width(x, y, e)),
                                   Aligned(y, e, Width(x, y, e)), 0)),
          e, FALSE)

\* x + y
FloatAdd(x, y) == SumAt(x, y, Min({x.e, y.e}))

\* the quotient bits of the higher part in front of those of the lower part
LowHigh(high, low) == [bits |-> high.bits \o low.bits, rem |-> low.rem]

RECURSIVE DivRange(_, _, _, _, _)
RECURSIVE DivLow(_, _, _, _, _)

\* the bits mid..hi of the quotient once the higher bits are divided, which
\* leave a remainder below n
DivLow(b, n, mid, hi, high) ==
  IF high.rem < n THEN LowHigh(high, DivRange(b, n, mid, hi, high.rem)) ELSE high

\* long division of the bits lo..hi of b by n, with the remainder rem of
\* the bits before them: the quotient bits and the remainder
DivRange(b, n, lo, hi, rem) ==
  IF lo = hi
    THEN [bits |-> <<(2 * rem + b[lo]) \div n>>, rem |-> (2 * rem + b[lo]) % n]
    ELSE DivLow(b, n, (lo + hi) \div 2 + 1, hi, DivRange(b, n, lo, (lo + hi) \div 2, rem))

\* the bits the quotient is computed with beyond those of the dividend
ExtraBits == 60

QuotientOf(q, e) == Rounded(DropLeadingZeros(q.bits), e, q.rem # 0)

\* x / n for an integer n of a few bits
FloatDiv(x, n) ==
  IF x.bits = <<>> THEN x
  ELSE QuotientOf(DivRange(x.bits \o Zeros(ExtraBits), n, 1, Len(x.bits) + ExtraBits, 0),
                  x.e - ExtraBits)

\* a < b for two bit strings of one length
BitsLess(a, b) == \E i \in DOMAIN a : a[i] < b[i] /\ \A j \in 1..(i - 1) : a[j] = b[j]

LessAt(x, y, e) ==
  BitsLess(Aligned(x, e, Width(x, y, e)), Aligned(y, e, Width(x, y, e)))

\* x < y
FloatLess(x, y) == LessAt(x, y, Min({x.e, y.e}))

\* the bits of a natural number
RECURSIVE BitsOf(_)
BitsOf(k) == IF k = 0 THEN <<>> ELSE Append(BitsOf(k \div 2), k % 2)

\* float(k)
FloatOf(k) == Canonical(BitsOf(k), 0)

(* ----------------------------- confidences ------------------------------ *)
(* A confidence is the exact fraction n/d in lowest terms, so that equal    *)
(* values are equal records (the floats of the program are equal exactly    *)
(* when the fractions are, for the small inputs used here), or a binary64   *)
(* value, whose sums and quotients are rounded as the program rounds them.  *)

RECURSIVE GCD(_, _)
GCD(a, b) == IF b = 0 THEN a ELSE GCD(b, a % b)

Reduce(n, d, g) == [n |-> n \div g, d |-> d \div g]

Frac(n, d) == IF n = 0 THEN [n |-> 0, d |-> 1] ELSE Reduce(n, d, GCD(n, d))

Zero == Frac(0, 1)

\* a confidence kept as a binary64 value
IsFloat(a) == "bits" \in DOMAIN a

\* float(a): the binary64 value of a whole number
AsFloat(a) == IF IsFloat(a) THEN a ELSE FloatOf(a.n)

\* a < b on confidences
Less(a, b) ==
  IF IsFloat(a) \/ IsFloat(b) THEN FloatLess(AsFloat(a), AsFloat(b))
  ELSE a.n * b.d < b.n * a.d

AddConf(a, b) ==
  IF IsFloat(a) \/ IsFloat(b) THEN FloatAdd(AsFloat(a), AsFloat(b))
  ELSE Frac(a.n * b.d + b.n * a.d, a.d * b.d)

DivConf(a, k) == IF IsFloat(a) THEN FloatDiv(a, k) ELSE Frac(a.n, a.d * k)

\* sum(confs): from 0, the values added one after the other from the left
RECURSIVE SumFrom(_, _, _)
SumFrom(confs, i, total) ==
  IF i > Len(confs) THEN total ELSE SumFrom(confs, i + 1, AddConf(total, confs[i]))

SumConf(confs) == SumFrom(confs, 1, Zero)

\* sum(...) / len(...)
Mean(confs) == DivConf(SumConf(confs), Len(confs))

\* q hundredths and a remainder r out of d: up when above the half, or at
\* the half with q odd
RoundHalfEven(q, r, d) ==
  IF 2 * r > d \/ (2 * r = d /\ q % 2 = 1) THEN Frac(q + 1, 100) ELSE Frac(q, 100)

\* round(x, 2): the nearest hundredth, ties to the even hundredth
Round2(x) == RoundHalfEven((x.n * 100) \div x.d, (x.n * 100) % x.d, x.d)

(* ------------------------------- blocks --------------------------------- *)
(* A block is a dict: a record whose fields are a subset of text,           *)
(* confidence and geometry.  A lookup gives the value and whether it        *)
(* raised KeyError.                                                         *)

EmptyDict == [k \in {} |-> 0]

\* d[key]: raises KeyError when the key is absent
GetStrict(d, key, default) ==
  [raised |-> key \notin DOMAIN d, value |-> IF key \in DOMAIN d THEN d[key] ELSE default]

\* dict.get(key, default): never raises
Get(d, key, default) ==
  [raised |-> FALSE, value |-> IF key \in DOMAIN d THEN d[key] ELSE default]

TextOf(block) == Get(block, "text", <<>>)

ConfOf(block) == Get(block, "confidence", Zero)

GeomOf(block) == Get(block, "geometry", EmptyDict)

BoxOf(geometry) == Get(geometry, "BoundingBox", EmptyDict)

\* the gap below which merge_adjacent_words joins two words, in hundredths
GapThreshold == 5

(* ------------------------------- engine --------------------------------- *)

\* PlateParser.__init__
PlateParser(confidence_threshold, pattern) ==
  [confidence_threshold |-> confidence_threshold, custom_pattern |-> pattern]

\* the plate dict returned by _try_match
Candidate(text, confidence) == Some([text |-> text, confidence |-> confidence])

\* matches_plate_pattern(t) and validate_state_code(t)
Accepts(self, t) == matches_plate_pattern(self, t) /\ validate_state_code(t)

\* _try_match, step 4, on fixed = fix_ocr_confusables(cleaned)
MatchFixed(self, cleaned, fixed, confidence) ==
  IF fixed # cleaned /\ Accepts(self, fixed) THEN Candidate(fixed, confidence) ELSE None

\* steps 1 to 4 without the test of the length
MatchCleanedNoLength(self, cleaned, confidence) ==
  IF cleaned = <<>> THEN None
  ELSE IF is_noise(cleaned) THEN None
  ELSE IF Accepts(self, cleaned) THEN Candidate(cleaned, confidence)
  ELSE MatchFixed(self, cleaned, fix_ocr_confusables(cleaned), confidence)

\* _try_match, steps 1 to 4, on cleaned = clean_raw_text(text)
MatchCleaned(self, cleaned, confidence) ==
  IF cleaned = <<>> \/ Len(cleaned) < 5 THEN None
  ELSE IF is_noise(cleaned) THEN None
  ELSE IF Accepts(self, cleaned) THEN Candidate(cleaned, confidence)
  ELSE MatchFixed(self, cleaned, fix_ocr_confusables(cleaned), confidence)

\* steps 1 to 4 with the noise check moved after the direct match
MatchCleanedLayoutFirst(self, cleaned, confidence) ==
  IF cleaned = <<>> \/ Len(cleaned) < 5 THEN None
  ELSE IF Accepts(self, cleaned) THEN Candidate(cleaned, confidence)
  ELSE IF is_noise(cleaned) THEN None
  ELSE MatchFixed(self, cleaned, fix_ocr_confusables(cleaned), confidence)

\* _try_match with the noise check moved after the direct match
TryMatchLayoutFirst(self, text, confidence) ==
  MatchCleanedLayoutFirst(self, clean_raw_text(text), confidence)

\* steps 3 and 4 in the other order: the repaired text is tried first
MatchFixedFirst(self, cleaned, fixed, confidence) ==
  IF fixed # cleaned /\ Accepts(self, fixed) THEN Candidate(fixed, confidence)
  ELSE IF Accepts(self, cleaned) THEN Candidate(cleaned, confidence)
  ELSE None

MatchCleanedRepairFirst(self, cleaned, confidence) ==
  IF cleaned = <<>> \/ Len(cleaned) < 5 THEN None
  ELSE IF is_noise(cleaned) THEN None
  ELSE MatchFixedFirst(self, cleaned, fix_ocr_confusables(cleaned), confidence)

\* _try_match with the OCR repair tried before the direct match
TryMatchRepairFirst(self, text, confidence) ==
  MatchCleanedRepairFirst(self, clean_raw_text(text), confidence)

\* step 4 without the second layout and prefix check
MatchFixedNoRecheck(self, cleaned, fixed, confidence) ==
  IF fixed # cleaned THEN Candidate(fixed, confidence) ELSE None

MatchCleanedNoRecheck(self, cleaned, confidence) ==
  IF cleaned = <<>> \/ Len(cleaned) < 5 THEN None
  ELSE IF is_noise(cleaned) THEN None
  ELSE IF Accepts(self, cleaned) THEN Candidate(cleaned, confidence)
  ELSE MatchFixedNoRecheck(self, cleaned, fix_ocr_confusables(cleaned), confidence)

\* _try_match accepting the repaired text without checking it again
TryMatchNoRecheck(self, text, confidence) ==
  MatchCleanedNoRecheck(self, clean_raw_text(text), confidence)

_try_match(self, text, confidence) ==
  MatchCleaned(self, clean_raw_text(text), confidence)

\* the dedup key computed in _add
NormalizedKey(text) == StrUpper(RemoveChars(text, {" "}))

\* the locals before the first call of extract_plates
NoLocals == [plates |-> <<>>, plate_texts_found |-> {}, attempts |-> <<>>]

\* plate_texts_found kept from the previous call instead of a new set
NewLocalsStale(prev) ==
  [plates |-> <<>>, plate_texts_found |-> prev.plate_texts_found, attempts |-> <<>>]

\* the locals plates and plate_texts_found at the start of extract_plates
\* (prev: their values left by the previous call), with the log of the
\* _try_match calls of this call
NewLocals(prev) ==
  [plates |-> <<>>, plate_texts_found |-> {}, attempts |-> <<>>]

\* plates.append({...}) and plate_texts_found.add(norm)
Inserted(st, plate_dict, block_type, norm) ==
  [st EXCEPT !.plate_texts_found = @ \cup {norm},
             !.plates = Append(@, [text |-> plate_dict.text,
                                   confidence |-> plate_dict.confidence,
                                   block_type |-> block_type])]

\* _add without the membership test
AddNoCheck(st, plate_dict, block_type) ==
  Inserted(st, plate_dict, block_type, NormalizedKey(plate_dict.text))

\* the entry of the key norm overwritten by a later one
Replaced(plates, entry, norm) ==
  [k \in DOMAIN plates |->
     IF NormalizedKey(plates[k].text) = norm THEN entry ELSE plates[k]]

\* _add keeping the last insertion of a key instead of the first
AddLastWins(st, plate_dict, block_type) ==
  IF NormalizedKey(plate_dict.text) \notin st.plate_texts_found
    THEN Inserted(st, plate_dict, block_type, NormalizedKey(plate_dict.text))
    ELSE [st EXCEPT !.plates =
            Replaced(@, [text |-> plate_dict.text,
                         confidence |-> plate_dict.confidence,
                         block_type |-> block_type],
                     NormalizedKey(plate_dict.text))]

\* the confidence of the entry of the key norm raised to a higher one
Improved(plates, confidence, norm) ==
  [k \in DOMAIN plates |->
     IF NormalizedKey(plates[k].text) = norm /\ Less(plates[k].confidence, confidence)
       THEN [plates[k] EXCEPT !.confidence = confidence]
       ELSE plates[k]]

\* _add keeping the highest confidence seen for a key
AddKeepBest(st, plate_dict, block_type) ==
  IF NormalizedKey(plate_dict.text) \notin st.plate_texts_found
    THEN Inserted(st, plate_dict, block_type, NormalizedKey(plate_dict.text))
    ELSE [st EXCEPT !.plates =
            Improved(@, plate_dict.confidence, NormalizedKey(plate_dict.text))]

\* extract_plates._add
_add(st, plate_dict, block_type) ==
  IF NormalizedKey(plate_dict.text) \notin st.plate_texts_found
    THEN Inserted(st, plate_dict, block_type, NormalizedKey(plate_dict.text))
    ELSE st

\* the call _try_match(text, conf) = result, written to the log of the call
Logged(st, text, conf, result, block_type) ==
  [st EXCEPT !.attempts = Append(@, [text |-> text, confidence |-> conf,
                                     result |-> result, block_type |-> block_type])]

\* if result: _add(result, block_type)
AddIfResult(st, result, block_type) ==
  IF result # None THEN _add(st, result[1], block_type) ELSE st

Recorded(st, text, conf, result, block_type) ==
  AddIfResult(Logged(st, text, conf, result, block_type), result, block_type)

\* result = self._try_match(text, conf); if result: _add(result, block_type)
TryAndAdd(self, st, text, conf, block_type) ==
  Recorded(st, text, conf, _try_match(self, text, conf), block_type)

\* text = block.get('text', '').strip()
StrippedText(block) == Strip(TextOf(block).value, Whitespace)

\* the guard "if not text or conf < self.confidence_threshold: continue"
Skipped(self, block) ==
  \/ StrippedText(block) = <<>>
  \/ Less(ConfOf(block).value, self.confidence_threshold)

\* the body of the loop of pass 1
Pass1Block(self, block, st) ==
  IF Skipped(self, block) THEN st
  ELSE TryAndAdd(self, st, StrippedText(block), ConfOf(block).value, "single")

\* Pass 1: individual blocks
RECURSIVE Pass1(_, _, _, _)
Pass1(self, blocks, i, st) ==
  IF i > Len(blocks) THEN st
  ELSE Pass1(self, blocks, i + 1, Pass1Block(self, blocks[i], st))

\* the body of the first loop of pass 2: what the block adds to usable
UsableBlock(self, block, cleaned) ==
  IF ~Skipped(self, block) /\ cleaned # <<>> /\ ~is_noise(cleaned)
    THEN <<[text |-> cleaned, confidence |-> ConfOf(block).value,
            geometry |-> GeomOf(block).value]>>
    ELSE <<>>

\* Pass 2, first loop: the cleaned, non-noise blocks at or above the threshold
RECURSIVE Usable(_, _)
Usable(self, blocks) ==
  IF blocks = <<>> THEN <<>>
  ELSE UsableBlock(self, Head(blocks), clean_raw_text(StrippedText(Head(blocks))))
         \o Usable(self, Tail(blocks))

\* usable[i..j] tried as one text with the mean of its confidences
Window(self, usable, i, j, st) ==
  TryAndAdd(self, st,
            JoinSpace([k \in 1..(j - i + 1) |-> usable[i + k - 1].text]),
            Mean([k \in 1..(j - i + 1) |-> usable[i + k - 1].confidence]),
            "merged")

\* the second loop of pass 2 with windows of up to 5 blocks
RECURSIVE Pass2Long(_, _, _, _, _)
Pass2Long(self, usable, i, j, st) ==
  IF i > Len(usable) THEN st
  ELSE IF j > i + 4 \/ j > Len(usable) THEN Pass2Long(self, usable, i + 1, i + 2, st)
  ELSE Pass2Long(self, usable, i, j + 1, Window(self, usable, i, j, st))

\* Pass 2, second loop: windows usable[i..j], j in i+1 .. min(i+4, len) - 1
\* (indexes from 0 in the code, from 1 here)
RECURSIVE Pass2(_, _, _, _, _)
Pass2(self, usable, i, j, st) ==
  IF i > Len(usable) THEN st
  ELSE IF j > i + 3 \/ j > Len(usable) THEN Pass2(self, usable, i + 1, i + 2, st)
  ELSE Pass2(self, usable, i, j + 1, Window(self, usable, i, j, st))

\* the body of the loop of pass 3 skipping the blocks below the threshold
Pass3BlockAbove(self, conf, plate_match, st) ==
  IF plate_match # None /\ ~Less(conf, self.confidence_threshold)
    THEN TryAndAdd(self, st, Strip(plate_match[1], Whitespace), conf, "overlay")
    ELSE st

\* the body of the loop of pass 3
Pass3Block(self, conf, plate_match, st) ==
  IF plate_match # None
    THEN TryAndAdd(self, st, Strip(plate_match[1], Whitespace), conf, "overlay")
    ELSE st

\* Pass 3: "Plate: XXX" overlay text, whatever the confidence
RECURSIVE Pass3(_, _, _, _)
Pass3(self, blocks, i, st) ==
  IF i > Len(blocks) THEN st
  ELSE Pass3(self, blocks, i + 1,
             Pass3Block(self, ConfOf(blocks[i]).value,
                        OverlaySearch(StrippedText(blocks[i]), Alnum), st))

\* a filter that keeps every block
KeepAll(blocks, threshold) == blocks

filter_by_confidence(blocks, threshold) ==
  SelectSeq(blocks, LAMBDA block : ~Less(ConfOf(block).value, threshold))

\* Left and Left + Width of a word's bounding box, absent fields counting 0
LeftOf(word) == Get(BoxOf(GeomOf(word).value).value, "Left", 0).value

\* the right edge taken for the left edge: the width is left out
RightOfNoWidth(word) == LeftOf(word)

RightOf(word) ==
  LeftOf(word) + Get(BoxOf(GeomOf(word).value).value, "Width", 0).value

\* merged.append(current_text.strip()) without the test for a blank text
FlushedBlank(merged, stripped) == Append(merged, stripped)

\* if current_text.strip(): merged.append(current_text.strip())
Flushed(merged, stripped) ==
  IF stripped # <<>> THEN Append(merged, stripped) ELSE merged

\* the loop of merge_adjacent_words from word i on; prev is current_group[-1]
RECURSIVE MergeFrom(_, _, _, _, _)
MergeFrom(words, i, current_text, prev, merged) ==
  IF i > Len(words) THEN Flushed(merged, Strip(current_text, Whitespace))
  ELSE IF LeftOf(words[i]) - RightOf(prev) < GapThreshold
    THEN MergeFrom(words, i + 1, current_text \o <<" ">> \o TextOf(words[i]).value,
                   words[i], merged)
  ELSE MergeFrom(words, i + 1, TextOf(words[i]).value, words[i],
                 Flushed(merged, Strip(current_text, Whitespace)))

merge_adjacent_words(words) ==
  IF words = <<>> THEN <<>>
  ELSE MergeFrom(words, 2, TextOf(words[1]).value, words[1], <<>>)

\* the loop of pass 4
RECURSIVE Pass4Loop(_, _, _, _)
Pass4Loop(self, merged_texts, avg_conf, st) ==
  IF merged_texts = <<>> THEN st
  ELSE Pass4Loop(self, Tail(merged_texts), avg_conf,
                 TryAndAdd(self, st, Head(merged_texts), avg_conf, "adjacent"))

\* sum(confidence of above_threshold) / len(above_threshold), or 0
PoolAverage(above_threshold) ==
  IF above_threshold # <<>>
    THEN Mean([k \in 1..Len(above_threshold) |-> ConfOf(above_threshold[k]).value])
    ELSE Zero

Pass4Over(self, above_threshold, st) ==
  Pass4Loop(self, merge_adjacent_words(above_threshold),
            PoolAverage(above_threshold), st)

\* Pass 4: words merged by geometry, each tried with the pool average
Pass4(self, blocks, st) ==
  Pass4Over(self, filter_by_confidence(blocks, self.confidence_threshold), st)

\* a lookup of a pass raised: the call ends with the exception
PassRaises(self, blocks) ==
  \E i \in DOMAIN blocks :
     \/ TextOf(blocks[i]).raised
     \/ ConfOf(blocks[i]).raised
     \/ GeomOf(blocks[i]).raised
     \/ BoxOf(GeomOf(blocks[i]).value).raised

\* list.sort(key=confidence, reverse=True): stable, so an element goes
\* after the elements of at least its own confidence that came before it
RECURSIVE InsertDesc(_, _)
InsertDesc(sorted, x) ==
  IF sorted = <<>> THEN <<x>>
  ELSE IF Less(Head(sorted).confidence, x.confidence) THEN <<x>> \o sorted
  ELSE <<Head(sorted)>> \o InsertDesc(Tail(sorted), x)

\* a sort that puts an element before the earlier elements of its confidence
RECURSIVE InsertDescBeforeTies(_, _)
InsertDescBeforeTies(sorted, x) ==
  IF sorted = <<>> THEN <<x>>
  ELSE IF ~Less(x.confidence, Head(sorted).confidence) THEN <<x>> \o sorted
  ELSE <<Head(sorted)>> \o InsertDescBeforeTies(Tail(sorted), x)

RECURSIVE SortDescUnstable(_)
SortDescUnstable(plates) ==
  IF plates = <<>> THEN <<>>
  ELSE InsertDescBeforeTies(SortDescUnstable(SubSeq(plates, 1, Len(plates) - 1)),
                            plates[Len(plates)])

RECURSIVE SortDesc(_)
SortDesc(plates) ==
  IF plates = <<>> THEN <<>>
  ELSE InsertDesc(SortDesc(SubSeq(plates, 1, Len(plates) - 1)), plates[Len(plates)])

format_plates(plates) ==
  [k \in 1..Len(plates) |->
     [text |-> plates[k].text, confidence |-> Round2(plates[k].confidence)]]

\* the entries of get_all_detected_text for the lines kept
DetectedText(kept) ==
  [k \in 1..Len(kept) |->
     [text |-> TextOf(kept[k]).value, confidence |-> Round2(ConfOf(kept[k]).value)]]

get_all_detected_text(lines) ==
  DetectedText(SelectSeq(lines, LAMBDA line : StrippedText(line) # <<>>))

\* the entry appended for a plate of the low-threshold run
LowEntry(plate) ==
  <<[text |-> plate.text, confidence |-> Round2(plate.confidence),
     is_low_confidence |-> TRUE]>>

\* the confidence test of the loop over low_plates
InLowRange(plate, threshold, low_threshold) ==
  Less(plate.confidence, threshold) /\ ~Less(plate.confidence, low_threshold)

\* the loop over low_plates without the comparison with the main texts
RECURSIVE LowConfidencePlatesNoTextCheck(_, _, _, _)
LowConfidencePlatesNoTextCheck(low_plates, formatted, threshold, low_threshold) ==
  IF low_plates = <<>> THEN <<>>
  ELSE (IF InLowRange(Head(low_plates), threshold, low_threshold)
          THEN LowEntry(Head(low_plates))
          ELSE <<>>)
       \o LowConfidencePlatesNoTextCheck(Tail(low_plates), formatted, threshold,
                                         low_threshold)

\* the loop of parse_plates_from_textract over low_plates
RECURSIVE LowConfidencePlates(_, _, _, _)
LowConfidencePlates(low_plates, formatted, threshold, low_threshold) ==
  IF low_plates = <<>> THEN <<>>
  ELSE (IF /\ InLowRange(Head(low_plates), threshold, low_threshold)
           /\ ~\E k \in DOMAIN formatted : formatted[k].text = Head(low_plates).text
          THEN LowEntry(Head(low_plates))
          ELSE <<>>)
       \o LowConfidencePlates(Tail(low_plates), formatted, threshold, low_threshold)

\* extract_plates as one function: the four passes, then the sort
extract_plates(self, blocks) ==
  IF blocks = <<>> THEN <<>>
  ELSE SortDesc(
         Pass4(self, blocks,
           Pass3(self, blocks, 1,
             Pass2(self, Usable(self, blocks), 1, 2,
               Pass1(self, blocks, 1, NewLocals(NoLocals))))).plates)

\* the low-confidence entries put before the main ones
Prepended(formatted_plates, low_plates) == low_plates \o formatted_plates

\* formatted_plates.extend(low_confidence_plates)
Extended(formatted_plates, low_plates) == formatted_plates \o low_plates

\* the dict returned by parse_plates_from_textract
ParseResult(formatted_plates, lines, include_low_confidence) ==
  [plates |-> formatted_plates,
   all_detected_text |-> get_all_detected_text(lines),
   low_confidence_plates_included |-> include_low_confidence]

\* formatted_plates after the block "if include_low_confidence"
WithLowConfidence(formatted_plates, low_plates, threshold, low_threshold) ==
  Extended(formatted_plates,
           LowConfidencePlates(low_plates, formatted_plates, threshold, low_threshold))

\* parser.format_plates(parser.extract_plates(lines))
MainPlates(lines, threshold, pattern) ==
  format_plates(extract_plates(PlateParser(threshold, pattern), lines))

\* parse_plates_from_textract as one function, for a pattern that compiles
parse_plates_from_textract(lines, threshold, pattern, include_low_confidence, low_threshold) ==
  ParseResult(
    IF include_low_confidence
      THEN WithLowConfidence(MainPlates(lines, threshold, pattern),
                             extract_plates(PlateParser(low_threshold, pattern), lines),
                             threshold, low_threshold)
      ELSE MainPlates(lines, threshold, pattern),
    lines, include_low_confidence)

(* -------------------------------- inputs -------------------------------- *)

\* the longest list of lines given to parse_plates_from_textract
MaxBlocks == 2

Conf(c) == Frac(c, 1)

Box(left, width) == [BoundingBox |-> [Left |-> left, Width |-> width]]

\* the lines the input lists are made of: plates in several spellings, an
\* OCR misread, noise, a speed-camera overlay, split plates with geometry,
\* and lines with missing or empty fields
LineCatalog ==
  { [text |-> <<"T","S"," ","0","8"," ","F","W"," ","3","1","3","1">>,
     confidence |-> Conf(50)],
    [text |-> <<"T","S","0","8","F","W","3","1","3","1">>,
     confidence |-> Conf(90), geometry |-> Box(0, 0)],
    [text |-> <<"T","S","O","B","F","W","3","1","3","1">>,
     confidence |-> Conf(90)],
    [text |-> <<"T","R","U","C","K">>, confidence |-> Conf(90)],
    [text |-> <<"P","l","a","t","e",":"," ","A","P","2","9","B","P","2","4","9","6"," ","g","o">>,
     confidence |-> Conf(50)],
    [text |-> <<"T","S","0","8">>, confidence |-> Conf(90), geometry |-> Box(10, 10)],
    [text |-> <<"F","W","3","1","3","1">>, confidence |-> Conf(80),
     geometry |-> [BoundingBox |-> [Left |-> 21]]],
    [text |-> <<"T","S"," ","0","8"," ","F","W"," ","3","1","3","1","2">>,
     confidence |-> Conf(90)],
    [text |-> <<"A","P","2","9","B","P","2","4","9","6">>, confidence |-> Conf(90)],
    [text |-> <<"C","H">>, confidence |-> Conf(90), geometry |-> Box(10, 10)],
    [text |-> <<"0","1","A","B","1","2","3","4">>, confidence |-> Conf(80),
     geometry |-> Box(22, 20)],
    EmptyDict,
    [text |-> <<>>, confidence |-> Conf(90), geometry |-> EmptyDict],
    [text |-> <<"T","S","0","8","F","W","3","1","3","1">>] }

RECURSIVE ListsUpTo(_)
ListsUpTo(n) ==
  IF n = 0 THEN {<<>>}
  ELSE ListsUpTo(n - 1) \cup
       {Append(l, b) : l \in {x \in ListsUpTo(n - 1) : Len(x) = n - 1},
                       b \in LineCatalog}

\* confidence_threshold: the default, and one above the documented range
Thresholds == {Conf(60), Conf(101)}

\* low_confidence_threshold: the default
LowThresholds == {Conf(30)}

\* pattern: none, r'^[A-Z0-9]+$', or a string that is no regular expression
Patterns ==
  {NoPattern, CustomPattern(<<Item(UpperLetters \cup Digits, 1, -1)>>, TRUE), BadPattern}

(* ---------------------------- state machine ----------------------------- *)

VARIABLES
  lines,                     \* textract_response['lines']
  confidence_threshold,      \* arguments of parse_plates_from_textract
  pattern,
  include_low_confidence,
  low_confidence_threshold,
  pc,                        \* position in the running call
  phase,                     \* which extract_plates call: main, again, low
  self,                      \* the engine of the running extract_plates call
  locals,                    \* plates, plate_texts_found (and the call log)
  inserted,                  \* plates as it was before the sort
  ret,                       \* the value returned by the last extract_plates
  first,                     \* the value returned by the main call
  formatted_plates,
  low_confidence_plates,
  output,                    \* the dict returned by parse_plates_from_textract
  raised,                    \* an exception left extract_plates
  calls,                     \* the frames of concurrent extract_plates calls
  client,                    \* a TextractClient and its running detect_document_text
  cli,                       \* a run of the command-line tool
  probe                      \* one call of a function of the engine on a text

vars ==
  <<lines, confidence_threshold, pattern, include_low_confidence,
    low_confidence_threshold, pc, phase, self, locals, inserted, ret, first,
    formatted_plates, low_confidence_plates, output, raised, calls, client, cli, probe>>

\* the state of the engine and of parse_plates_from_textract
engine_vars ==
  <<lines, confidence_threshold, pattern, include_low_confidence,
    low_confidence_threshold, pc, phase, self, locals, inserted, ret, first,
    formatted_plates, low_confidence_plates, output, raised>>

\* no concurrent call, no client request and no command-line run is under way
NoCalls == <<>>

NoClient == [pc |-> "none"]

NoCli == [pc |-> "none"]

NoProbe == [pc |-> "none"]

\* what parse_plates_from_textract does not touch
others == <<calls, client, cli, probe>>

args ==
  <<lines, confidence_threshold, pattern, include_low_confidence,
    low_confidence_threshold>>

Init ==
  /\ lines \in ListsUpTo(MaxBlocks)
  /\ confidence_threshold \in Thresholds
  /\ pattern \in Patterns
  /\ include_low_confidence \in BOOLEAN
  /\ low_confidence_threshold \in LowThresholds
  /\ pc = "start"
  /\ phase = "main"
  /\ self = PlateParser(Zero, NoPattern)
  /\ locals = NoLocals
  /\ inserted = <<>>
  /\ ret = <<>>
  /\ first = <<>>
  /\ formatted_plates = <<>>
  /\ low_confidence_plates = <<>>
  /\ output = EmptyDict
  /\ raised = FALSE
  /\ calls = NoCalls
  /\ client = NoClient
  /\ cli = NoCli
  /\ probe = NoProbe

\* parser = PlateParser(confidence_threshold, pattern); parser.extract_plates(lines)
Construct ==
  /\ pc = "start"
  /\ IF CompileRaises(pattern)
       THEN /\ pc' = "config_error"
            /\ UNCHANGED self
       ELSE /\ self' = PlateParser(confidence_threshold, pattern)
            /\ pc' = "extract"
  /\ UNCHANGED <<others, args, phase, locals, inserted, ret, first, formatted_plates,
                 low_confidence_plates, output, raised>>

\* extract_plates, lines 306-310
ExtractBegin ==
  /\ pc = "extract"
  /\ IF lines = <<>>
       THEN /\ ret' = <<>>
            /\ pc' = "returned"
            /\ UNCHANGED <<locals, inserted>>
       ELSE /\ locals' = NewLocals(locals)
            /\ inserted' = <<>>
            /\ pc' = "pass1"
            /\ UNCHANGED ret
  /\ UNCHANGED <<others, args, phase, self, first, formatted_plates,
                 low_confidence_plates, output, raised>>

\* a pass either raises out of the call or hands over to the next pass
PassStep(from, to, raises, after) ==
  /\ pc = from
  /\ IF raises
       THEN /\ raised' = TRUE
            /\ pc' = "raised"
            /\ UNCHANGED locals
       ELSE /\ locals' = after
            /\ pc' = to
            /\ UNCHANGED raised
  /\ UNCHANGED <<others, args, phase, self, inserted, ret, first, formatted_plates,
                 low_confidence_plates, output>>

RunPass1 ==
  PassStep("pass1", "pass2", PassRaises(self, lines), Pass1(self, lines, 1, locals))

RunPass2 ==
  PassStep("pass2", "pass3", PassRaises(self, lines),
           Pass2(self, Usable(self, lines), 1, 2, locals))

RunPass3 ==
  PassStep("pass3", "pass4", PassRaises(self, lines), Pass3(self, lines, 1, locals))

RunPass4 ==
  PassStep("pass4", "sort", PassRaises(self, lines), Pass4(self, lines, locals))

\* plates.sort(...); return plates
SortReturn ==
  /\ pc = "sort"
  /\ inserted' = locals.plates
  /\ locals' = [locals EXCEPT !.plates = SortDesc(@)]
  /\ ret' = locals'.plates
  /\ pc' = "returned"
  /\ UNCHANGED <<others, args, phase, self, first, formatted_plates,
                 low_confidence_plates, output, raised>>

\* a caller of the engine calls extract_plates again with the same lines
CallAgain ==
  /\ pc = "returned"
  /\ phase = "main"
  /\ first' = ret
  /\ phase' = "again"
  /\ pc' = "extract"
  /\ UNCHANGED <<others, args, self, locals, inserted, ret, formatted_plates,
                 low_confidence_plates, output, raised>>

\* parse_plates_from_textract, lines 448-458
FormatMain ==
  /\ pc = "returned"
  /\ phase = "main"
  /\ first' = ret
  /\ formatted_plates' = format_plates(ret)
  /\ IF include_low_confidence
       THEN /\ self' = PlateParser(low_confidence_threshold, pattern)
            /\ phase' = "low"
            /\ pc' = "extract"
       ELSE /\ pc' = "finish"
            /\ UNCHANGED <<self, phase>>
  /\ UNCHANGED <<others, args, locals, inserted, ret, low_confidence_plates, output, raised>>

\* parse_plates_from_textract, lines 460-470
Augment ==
  /\ pc = "returned"
  /\ phase = "low"
  /\ low_confidence_plates' =
       LowConfidencePlates(ret, formatted_plates, confidence_threshold,
                           low_confidence_threshold)
  /\ formatted_plates' = Extended(formatted_plates, low_confidence_plates')
  /\ pc' = "finish"
  /\ UNCHANGED <<others, args, phase, self, locals, inserted, ret, first, output, raised>>

\* parse_plates_from_textract, lines 472-478
Finish ==
  /\ pc = "finish"
  /\ output' = ParseResult(formatted_plates, lines, include_low_confidence)
  /\ pc' = "done"
  /\ UNCHANGED <<others, args, phase, self, locals, inserted, ret, first,
                 formatted_plates, low_confidence_plates, raised>>

Next ==
  \/ Construct
  \/ ExtractBegin
  \/ RunPass1
  \/ RunPass2
  \/ RunPass3
  \/ RunPass4
  \/ SortReturn
  \/ CallAgain
  \/ FormatMain
  \/ Augment
  \/ Finish

Spec == Init /\ [][Next]_vars

(* ------------------------- properties of the engine --------------------- *)

\* no two candidates of a list have the same NormalizedKey
NoDuplicateKeys(ps) ==
  \A i, j \in DOMAIN ps :
     i # j => NormalizedKey(ps[i].text) # NormalizedKey(ps[j].text)

\* the _try_match calls logged by the running (or last) extract_plates call
Attempts == {locals.attempts[k] : k \in DOMAIN locals.attempts}

\* the order in which the passes run
PassRank(block_type) ==
  CASE block_type = "single" -> 1
    [] block_type = "merged" -> 2
    [] block_type = "overlay" -> 3
    [] block_type = "adjacent" -> 4

\* the position of a returned candidate in plates before the sort
InsertedAt(plate) == CHOOSE k \in DOMAIN inserted : inserted[k] = plate

\* text with spaces and hyphens removed
Stripped(text) == RemoveChars(text, {" ", "-"})

\* C1: no two candidates in the list returned by one extract_plates call
\* have the same NormalizedKey (text without spaces, upper-cased).
C1_Dedup == pc = "returned" => NoDuplicateKeys(ret)

\* a call has returned candidates after two accepted attempts had the same key
C1_Witness ==
  /\ pc = "returned"
  /\ ret # <<>>
  /\ \E a, b \in DOMAIN locals.attempts :
        /\ a < b
        /\ locals.attempts[a].result # None
        /\ locals.attempts[b].result # None
        /\ NormalizedKey(locals.attempts[a].result[1].text)
             = NormalizedKey(locals.attempts[b].result[1].text)

\* C2 (as claimed): in the final 'plates' list of parse_plates_from_textract,
\* low-confidence augmentation included, no two entries share a NormalizedKey.
C2_FinalDedup == pc = "done" => NoDuplicateKeys(output.plates)

\* C3 (as claimed): every returned candidate's text, with spaces and hyphens
\* removed, matches a configured layout pattern and starts with a regional code.
C3_StrippedLayout ==
  pc = "returned" =>
    \A k \in DOMAIN ret :
       /\ matches_plate_pattern(self, Stripped(ret[k].text))
       /\ validate_state_code(ret[k].text)

\* C3 (amended): every returned candidate's text itself, separators kept,
\* matches a configured layout pattern, and its first two characters after
\* removing spaces and hyphens and upper-casing are a regional code.
C3_Layout ==
  pc = "returned" =>
    \A k \in DOMAIN ret :
       /\ matches_plate_pattern(self, ret[k].text)
       /\ Len(Stripped(ret[k].text)) >= 2
       /\ SubSeq(StrUpper(Stripped(ret[k].text)), 1, 2) \in INDIAN_STATE_CODES

\* a returned candidate that matches only with its separators in place
C3_Witness ==
  /\ pc = "returned"
  /\ \E k \in DOMAIN ret :
        /\ matches_plate_pattern(self, ret[k].text)
        /\ ~matches_plate_pattern(self, Stripped(ret[k].text))

\* C4: the returned list is sorted by confidence, highest first, and
\* candidates of equal confidence are in the order of their insertion, which
\* is the order of the passes Single, Merged, Overlay, Adjacent.
C4_Ranking ==
  (pc = "returned" /\ lines # <<>>) =>
    \A i, j \in DOMAIN ret :
       i < j =>
         /\ ~Less(ret[i].confidence, ret[j].confidence)
         /\ ret[i].confidence = ret[j].confidence =>
              /\ InsertedAt(ret[i]) < InsertedAt(ret[j])
              /\ PassRank(ret[i].block_type) <= PassRank(ret[j].block_type)

\* two returned candidates of equal confidence that come from different passes
C4_Witness ==
  /\ pc = "returned"
  /\ \E i, j \in DOMAIN ret :
        /\ i < j
        /\ ret[i].confidence = ret[j].confidence
        /\ ret[i].block_type # ret[j].block_type

\* C5: a second extract_plates call on the same engine with the same lines
\* returns the same ordered list as the first.
C5_Idempotent == (pc = "returned" /\ phase = "again") => ret = first

\* the second call has returned, with at least two candidates
C5_Witness == pc = "returned" /\ phase = "again" /\ Len(ret) >= 2

\* C6: whenever the cleaned text is noise, _try_match returns no candidate,
\* with the built-in patterns and with a caller's pattern, also when the
\* text passes the layout and prefix checks.
C6_NoiseFirst ==
  \A a \in Attempts : is_noise(clean_raw_text(a.text)) => a.result = None

\* a noise text of five characters or more that passes layout and prefix
\* checks was tried and rejected
C6_Witness ==
  \E a \in Attempts :
     LET cleaned == clean_raw_text(a.text)
     IN  /\ Len(cleaned) >= 5
         /\ is_noise(cleaned)
         /\ matches_plate_pattern(self, cleaned)
         /\ validate_state_code(cleaned)
         /\ a.result = None

\* C7: a candidate of _try_match carries the cleaned text exactly when the
\* cleaned text passes the layout and prefix checks; otherwise it carries
\* the repaired text.
C7_RepairFallback ==
  \A a \in Attempts :
     LET cleaned == clean_raw_text(a.text)
         direct  == matches_plate_pattern(self, cleaned) /\ validate_state_code(cleaned)
     IN  a.result # None =>
           /\ direct => a.result[1].text = cleaned
           /\ ~direct => /\ a.result[1].text # cleaned
                         /\ a.result[1].text = fix_ocr_confusables(cleaned)

\* one attempt was accepted only after the repair
C7_Witness ==
  \E a \in Attempts :
     /\ a.result # None
     /\ a.result[1].text # clean_raw_text(a.text)

\* C8: every appended low-confidence entry comes from a candidate of the
\* low-threshold run whose unrounded confidence c has
\* low_confidence_threshold <= c < confidence_threshold, and its text is the
\* text of no entry of the main-pass result.
C8_LowBound ==
  pc = "done" =>
    \A k \in DOMAIN low_confidence_plates :
       /\ \E m \in DOMAIN ret :
             /\ ret[m].text = low_confidence_plates[k].text
             /\ ~Less(ret[m].confidence, low_confidence_threshold)
             /\ Less(ret[m].confidence, confidence_threshold)
       /\ \A m \in DOMAIN first : first[m].text # low_confidence_plates[k].text

\* the augmentation appended an entry while the main pass had one too
C8_Witness ==
  pc = "done" /\ low_confidence_plates # <<>> /\ first # <<>>

\* a line without text, or with an empty one
NoText(line) == "text" \notin DOMAIN line \/ line.text = <<>>

\* C9: extract_plates never raises: an empty list of lines gives an empty
\* list, lines without text give no candidate, and lines with a missing
\* confidence or geometry do not stop the call.
C9_NeverRaises ==
  /\ ~raised
  /\ pc # "raised"
  /\ (pc = "returned" /\ lines = <<>>) => ret = <<>>
  /\ (pc = "returned" /\ \A k \in DOMAIN lines : NoText(lines[k])) => ret = <<>>

\* a call over a line with no field at all has returned a candidate
C9_Witness ==
  /\ pc = "returned"
  /\ \E k \in DOMAIN lines : DOMAIN lines[k] = {}
  /\ ret # <<>>

\* C10 (as claimed): with a threshold above 100 and confidences in [0,100],
\* extract_plates returns an empty list.
C10_AboveRange ==
  (pc = "returned" /\ Less(Conf(100), self.confidence_threshold)) => ret = <<>>

\* the first accepted attempt of the call whose result has the key norm
FirstAccepted(norm) ==
  locals.attempts[
    Min({a \in DOMAIN locals.attempts :
           /\ locals.attempts[a].result # None
           /\ NormalizedKey(locals.attempts[a].result[1].text) = norm})]

\* C11: the passes feed the dedup set in the order Single, Merged, Overlay,
\* Adjacent and a key already present is dropped, so a returned candidate has
\* the block_type, text and confidence of the first accepted attempt for its
\* NormalizedKey.
C11_FirstPassWins ==
  (pc = "returned" /\ lines # <<>>) =>
    /\ \A a, b \in DOMAIN locals.attempts :
          a < b => PassRank(locals.attempts[a].block_type)
                     <= PassRank(locals.attempts[b].block_type)
    /\ \A k \in DOMAIN ret :
          /\ FirstAccepted(NormalizedKey(ret[k].text)).block_type = ret[k].block_type
          /\ FirstAccepted(NormalizedKey(ret[k].text)).result[1].text = ret[k].text
          /\ FirstAccepted(NormalizedKey(ret[k].text)).result[1].confidence
               = ret[k].confidence

\* a returned candidate whose key was accepted again by a later pass
C11_Witness ==
  /\ pc = "returned"
  /\ \E k \in DOMAIN ret :
       \E a, b \in DOMAIN locals.attempts :
          /\ a < b
          /\ locals.attempts[a].result # None
          /\ locals.attempts[b].result # None
          /\ NormalizedKey(locals.attempts[a].result[1].text) = NormalizedKey(ret[k].text)
          /\ NormalizedKey(locals.attempts[b].result[1].text) = NormalizedKey(ret[k].text)
          /\ locals.attempts[a].block_type # locals.attempts[b].block_type

\* C13: a pattern that does not compile raises when the engine is
\* constructed, before any line is examined; with a pattern that compiles
\* (or none) neither the construction nor an extract_plates call raises.
C13_FailsAtConstruction ==
  /\ pattern = BadPattern =>
        /\ pc \in {"start", "config_error"}
        /\ locals = NoLocals
        /\ ret = <<>>
        /\ output = EmptyDict
  /\ pattern # BadPattern => (pc \notin {"config_error", "raised"} /\ ~raised)

\* the construction has raised on a call with lines to examine
C13_Witness == pc = "config_error" /\ lines # <<>> /\ include_low_confidence

\* full starts with the entries of base, and the entries after them carry
\* the low-confidence tag
TaggedExtension(base, full) ==
  /\ Len(full) >= Len(base)
  /\ SubSeq(full, 1, Len(base)) = base
  /\ \A k \in (Len(base) + 1)..Len(full) :
        /\ "is_low_confidence" \in DOMAIN full[k]
        /\ full[k].is_low_confidence

\* C14: the 'plates' list with include_low_confidence starts with the list
\* obtained without it, in the same order, and every entry after that prefix
\* carries the low-confidence tag.
C14_AppendOnly ==
  (pc = "done" /\ include_low_confidence) =>
    TaggedExtension(
      parse_plates_from_textract(lines, confidence_threshold, pattern, FALSE,
                                 low_confidence_threshold).plates,
      output.plates)

\* an entry was appended after a main entry of lower confidence
C14_Witness ==
  /\ pc = "done"
  /\ include_low_confidence
  /\ \E i \in 1..Len(first) :
       \E k \in (Len(first) + 1)..Len(output.plates) :
          Less(output.plates[i].confidence, output.plates[k].confidence)

(* ------------------- the functions of the engine on a text -------------- *)

\* the engine and parse_plates_from_textract are not running
EngineIdle ==
  /\ lines = <<>>
  /\ confidence_threshold = Conf(60)
  /\ pattern = NoPattern
  /\ include_low_confidence = FALSE
  /\ low_confidence_threshold = Conf(30)
  /\ pc = "none"
  /\ phase = "main"
  /\ self = PlateParser(Zero, NoPattern)
  /\ locals = NoLocals
  /\ inserted = <<>>
  /\ ret = <<>>
  /\ first = <<>>
  /\ formatted_plates = <<>>
  /\ low_confidence_plates = <<>>
  /\ output = EmptyDict
  /\ raised = FALSE

\* the texts of the catalog, as they are and in lower case
ProbeTexts ==
  UNION {{l.text, StrLower(l.text)} : l \in {x \in LineCatalog : "text" \in DOMAIN x}}

\* pattern: none, r'^[A-Z0-9]+$', or r'[A-Z]{2}\d{2}' (no anchor at the end)
ProbePatterns ==
  {NoPattern,
   CustomPattern(<<Item(UpperLetters \cup Digits, 1, -1)>>, TRUE),
   CustomPattern(<<Item(UpperLetters, 2, 2), Item(Digits, 2, 2)>>, FALSE)}

ProbeInit ==
  /\ EngineIdle
  /\ calls = NoCalls
  /\ client = NoClient
  /\ cli = NoCli
  /\ probe \in [pc : {"ready"}, text : ProbeTexts,
                self : {PlateParser(Conf(60), p) : p \in ProbePatterns},
                confidence : {Conf(90)}, out : {FALSE}]

\* parser.matches_plate_pattern(text)
ProbeMatch ==
  /\ probe.pc = "ready"
  /\ probe' = [probe EXCEPT !.pc = "matched",
                            !.out = matches_plate_pattern(probe.self, probe.text)]
  /\ UNCHANGED <<engine_vars, calls, client, cli>>

\* parser._try_match(text, confidence)
ProbeTryMatch ==
  /\ probe.pc = "ready"
  /\ probe' = [probe EXCEPT !.pc = "tried",
                            !.out = _try_match(probe.self, probe.text, probe.confidence)]
  /\ UNCHANGED <<engine_vars, calls, client, cli>>

ProbeNext ==
  \/ ProbeMatch
  \/ ProbeTryMatch

ProbeSpec == ProbeInit /\ [][ProbeNext]_vars

\* C12: with a custom pattern, matches_plate_pattern is the match of that
\* pattern alone, whatever the case of the text; the built-in patterns decide
\* only when no pattern was given.
C12_PatternAlone ==
  probe.pc = "matched" =>
    IF probe.self.custom_pattern.given
      THEN /\ probe.out = CustomMatch(probe.self.custom_pattern, StrUpper(probe.text))
           /\ probe.out = matches_plate_pattern(probe.self, StrLower(probe.text))
           /\ probe.out = matches_plate_pattern(probe.self, StrUpper(probe.text))
      ELSE probe.out = AnyPattern(INDIAN_PATTERNS, Strip(StrUpper(probe.text), Whitespace))

\* a custom pattern has rejected a text that the built-in patterns accept
C12_Witness ==
  /\ probe.pc = "matched"
  /\ probe.self.custom_pattern.given
  /\ probe.text # StrUpper(probe.text)
  /\ AnyPattern(INDIAN_PATTERNS, Strip(StrUpper(probe.text), Whitespace))
  /\ ~probe.out

(* -------------------- concurrent calls of extract_plates ---------------- *)

\* two calls run at the same time
Threads == {1, 2}

\* the longest list of lines given to a concurrent call
MaxCallBlocks == 2

\* the engines the calls run on: the default one and one with a lower threshold
Engines == <<PlateParser(Conf(60), NoPattern), PlateParser(Conf(30), NoPattern)>>

\* a plate, and the same plate in another spelling below the default threshold
CallCatalog ==
  { [text |-> <<"T","S","0","8","F","W","3","1","3","1">>,
     confidence |-> Conf(90), geometry |-> Box(0, 0)],
    [text |-> <<"T","S"," ","0","8"," ","F","W"," ","3","1","3","1">>,
     confidence |-> Conf(50)] }

\* the lists of at most n lines of a catalog
RECURSIVE ListsOver(_, _)
ListsOver(catalog, n) ==
  IF n = 0 THEN {<<>>}
  ELSE ListsOver(catalog, n - 1) \cup
       {Append(l, b) : l \in {x \in ListsOver(catalog, n - 1) : Len(x) = n - 1},
                       b \in catalog}

\* the locals of the other call, as if plates and plate_texts_found were shared
Other(frames, t) == frames[3 - t].locals

\* the locals plates and plate_texts_found of call t: its own frame
Own(frames, t) == frames[t].locals

\* call t is between its first pass and its return
Running(t) == calls[t].pc \in {"pass1", "pass2", "pass3", "pass4", "sort"}

\* call t takes a step; overlapped records that the other call was running
Stepped(t, to, after) ==
  [calls EXCEPT ![t].pc = to,
                ![t].locals = after,
                ![t].overlapped = @ \/ Running(3 - t)]

ConcInit ==
  /\ EngineIdle
  /\ client = NoClient
  /\ cli = NoCli
  /\ probe = NoProbe
  /\ \E l1, l2 \in ListsOver(CallCatalog, MaxCallBlocks), e1, e2 \in DOMAIN Engines :
        calls = [t \in Threads |->
                   [pc |-> "ready", self |-> Engines[IF t = 1 THEN e1 ELSE e2],
                    lines |-> IF t = 1 THEN l1 ELSE l2,
                    locals |-> NoLocals, ret |-> <<>>, overlapped |-> FALSE]]

\* extract_plates, lines 306-310, in call t
CallBegin ==
  \E t \in Threads :
     /\ calls[t].pc = "ready"
     /\ calls' = IF calls[t].lines = <<>>
                   THEN Stepped(t, "returned", Own(calls, t))
                   ELSE Stepped(t, "pass1", NewLocals(Own(calls, t)))
     /\ UNCHANGED <<engine_vars, client, cli, probe>>

CallPass1 ==
  \E t \in Threads :
     /\ calls[t].pc = "pass1"
     /\ calls' = Stepped(t, "pass2",
                         Pass1(calls[t].self, calls[t].lines, 1, Own(calls, t)))
     /\ UNCHANGED <<engine_vars, client, cli, probe>>

CallPass2 ==
  \E t \in Threads :
     /\ calls[t].pc = "pass2"
     /\ calls' = Stepped(t, "pass3",
                         Pass2(calls[t].self, Usable(calls[t].self, calls[t].lines),
                               1, 2, Own(calls, t)))
     /\ UNCHANGED <<engine_vars, client, cli, probe>>

CallPass3 ==
  \E t \in Threads :
     /\ calls[t].pc = "pass3"
     /\ calls' = Stepped(t, "pass4",
                         Pass3(calls[t].self, calls[t].lines, 1, Own(calls, t)))
     /\ UNCHANGED <<engine_vars, client, cli, probe>>

CallPass4 ==
  \E t \in Threads :
     /\ calls[t].pc = "pass4"
     /\ calls' = Stepped(t, "sort",
                         Pass4(calls[t].self, calls[t].lines, Own(calls, t)))
     /\ UNCHANGED <<engine_vars, client, cli, probe>>

\* plates.sort(...); return plates, in call t
CallReturn ==
  \E t \in Threads :
     /\ calls[t].pc = "sort"
     /\ calls' = [Stepped(t, "returned", Own(calls, t))
                    EXCEPT ![t].ret = SortDesc(Own(calls, t).plates)]
     /\ UNCHANGED <<engine_vars, client, cli, probe>>

ConcNext ==
  \/ CallBegin
  \/ CallPass1
  \/ CallPass2
  \/ CallPass3
  \/ CallPass4
  \/ CallReturn

ConcSpec == ConcInit /\ [][ConcNext]_vars

\* C15: whatever the interleaving of two extract_plates calls, on one engine
\* or on two, each call returns what it returns when it runs alone.
C15_Isolation ==
  \A t \in DOMAIN calls :
     calls[t].pc = "returned" =>
       calls[t].ret = extract_plates(calls[t].self, calls[t].lines)

\* two calls on one engine with different lines ran at the same time and
\* both returned candidates
C15_Witness ==
  /\ calls # NoCalls
  /\ \A t \in Threads :
        /\ calls[t].pc = "returned"
        /\ calls[t].overlapped
        /\ calls[t].ret # <<>>
  /\ calls[1].self = calls[2].self
  /\ calls[1].ret # calls[2].ret

(* --------------------------- the command-line tool ---------------------- *)

\* utils.validate_confidence_threshold
validate_confidence_threshold(threshold) ==
  ~Less(threshold, Zero) /\ ~Less(Conf(100), threshold)

\* the lines Textract finds on the image
CliLines == ListsOver(CallCatalog, MaxCallBlocks)

\* the step of process_image that fails on the image, if any
Failures == {"none", "validate", "preprocess", "ocr"}

\* result of process_image before the try block, and when a step raised
Failure(error) ==
  [success |-> FALSE, plates |-> <<>>, all_detected_text |-> <<>>, error |-> error]

\* result of process_image when every step succeeded
Success(parse_result) ==
  [success |-> TRUE, plates |-> parse_result.plates,
   all_detected_text |-> parse_result.all_detected_text, error |-> "None"]

\* the exception of a step leaving process_image
Escaped == [raised |-> TRUE]

\* process_image with "except ValueError" alone: the IOError of the
\* preprocessing and the re.error of the parser leave the function
ProcessImageValueErrors(extractor, image) ==
  IF image.fails = "preprocess" THEN Escaped
  ELSE IF image.fails # "none" THEN Failure(image.fails)
  ELSE IF CompileRaises(extractor.pattern) THEN Escaped
  ELSE Success(parse_plates_from_textract(image.lines, extractor.confidence,
                                          extractor.pattern, FALSE, Conf(30)))

\* process_image: parse_plates_from_textract is called with the threshold and
\* the pattern only, so include_low_confidence and low_confidence_threshold
\* have their defaults, False and 30.0; the exception of a step, and of
\* re.compile in the parser, is caught and becomes the error of the result
process_image(extractor, image) ==
  IF image.fails # "none" THEN Failure(image.fails)
  ELSE IF CompileRaises(extractor.pattern) THEN Failure("parse")
  ELSE Success(parse_plates_from_textract(image.lines, extractor.confidence,
                                          extractor.pattern, FALSE, Conf(30)))

CliInit ==
  /\ EngineIdle
  /\ calls = NoCalls
  /\ client = NoClient
  /\ probe = NoProbe
  /\ cli \in [pc : {"main"},
              confidence : {Conf(60), Conf(101)},
              pattern : {NoPattern},
              include_low_confidence : BOOLEAN,
              low_confidence_threshold : LowThresholds,
              image : [fails : Failures, lines : CliLines],
              result : {Failure("None")},
              exit_code : {-1}]

\* main, lines 259-265: NumberPlateExtractor(...); a ValueError of the
\* constructor ends main with exit code 1
NewExtractor ==
  /\ cli.pc = "main"
  /\ cli' = IF validate_confidence_threshold(cli.confidence)
              THEN [cli EXCEPT !.pc = "ready"]
              ELSE [cli EXCEPT !.pc = "exited", !.exit_code = 1]
  /\ UNCHANGED <<engine_vars, calls, client, probe>>

\* main, line 270: extractor.process_single_image(args.image, ...)
ProcessImage ==
  /\ cli.pc = "ready"
  /\ cli' = [cli EXCEPT !.pc = "processed",
                        !.result = process_image(cli, cli.image)]
  /\ UNCHANGED <<engine_vars, calls, client, probe>>

\* main, line 301: sys.exit(0 if result['success'] else 1)
Exit ==
  /\ cli.pc = "processed"
  /\ cli' = [cli EXCEPT !.pc = "exited",
                        !.exit_code = IF cli.result.success THEN 0 ELSE 1]
  /\ UNCHANGED <<engine_vars, calls, client, probe>>

CliNext ==
  \/ NewExtractor
  \/ ProcessImage
  \/ Exit

CliSpec == CliInit /\ [][CliNext]_vars

\* C16 (as claimed): run with --include-low-confidence, the tool reports for
\* a processed image the plates of parse_plates_from_textract called with
\* include_low_confidence and the given low_confidence_threshold.
C16_FlagReachesParser ==
  (cli.pc \in {"processed", "exited"} /\ cli.include_low_confidence
     /\ cli.result.success) =>
    cli.result.plates =
      parse_plates_from_textract(cli.image.lines, cli.confidence, cli.pattern,
                                 TRUE, cli.low_confidence_threshold).plates

(* --------------------------- the Textract client ------------------------ *)

\* the largest max_retries given to TextractClient
MaxRetries == 3

\* the exceptions of the API that detect_document_text turns into ValueError
Rejections ==
  {"InvalidParameterException", "BadDocumentException",
   "DocumentTooLargeException", "UnsupportedDocumentException"}

\* the request has failed on this attempt with the exception named kind
Failed(kind) ==
  [client EXCEPT !.api_calls = @ + 1, !.outcomes = Append(@, kind)]

\* the branch "if attempt < self.max_retries - 1" of a handler: sleep and go
\* on with the next attempt, or raise RuntimeError
RetryOrRaise(c, wait_time) ==
  IF c.attempt < c.max_retries - 1
    THEN [c EXCEPT !.slept = @ + wait_time, !.attempt = @ + 1, !.pc = "for"]
    ELSE [c EXCEPT !.error = "RuntimeError", !.pc = "raised"]

ClientInit ==
  /\ EngineIdle
  /\ calls = NoCalls
  /\ cli = NoCli
  /\ probe = NoProbe
  /\ client \in [pc : {"for"}, max_retries : 0..MaxRetries, retry_delay : {1, 2},
                 attempt : {0}, api_calls : {0}, slept : {0}, outcomes : {<<>>},
                 response : {None}, error : {"None"}]

\* for attempt in range(self.max_retries): the next attempt, or the end of
\* the loop and of the function, which then returns None
ForAttempt ==
  /\ client.pc = "for"
  /\ client' = IF client.attempt < client.max_retries
                 THEN [client EXCEPT !.pc = "call"]
                 ELSE [client EXCEPT !.pc = "returned"]
  /\ UNCHANGED <<engine_vars, calls, cli, probe>>

\* lines 58-61: the API call succeeds; return response
ApiReturns ==
  /\ client.pc = "call"
  /\ client' = [client EXCEPT !.api_calls = @ + 1,
                              !.outcomes = Append(@, "ok"),
                              !.response = Some("response"),
                              !.pc = "returned"]
  /\ UNCHANGED <<engine_vars, calls, cli, probe>>

\* lines 62-68: ThrottlingException
ApiThrottled ==
  /\ client.pc = "call"
  /\ client' = RetryOrRaise(Failed("ThrottlingException"),
                            client.retry_delay * (2 ^ client.attempt))
  /\ UNCHANGED <<engine_vars, calls, cli, probe>>

\* the four exceptions handled like any other exception
ApiRejectsRetried ==
  /\ client.pc = "call"
  /\ \E kind \in Rejections :
        client' = RetryOrRaise(Failed(kind), client.retry_delay)
  /\ UNCHANGED <<engine_vars, calls, cli, probe>>

\* lines 69-76: the exceptions raised again as ValueError
ApiRejects ==
  /\ client.pc = "call"
  /\ \E kind \in Rejections :
        client' = [Failed(kind) EXCEPT !.error = "ValueError", !.pc = "raised"]
  /\ UNCHANGED <<engine_vars, calls, cli, probe>>

\* lines 77-82: any other exception
ApiFails ==
  /\ client.pc = "call"
  /\ client' = RetryOrRaise(Failed("Exception"), client.retry_delay)
  /\ UNCHANGED <<engine_vars, calls, cli, probe>>

ClientNext ==
  \/ ForAttempt
  \/ ApiReturns
  \/ ApiThrottled
  \/ ApiRejects
  \/ ApiFails

ClientSpec == ClientInit /\ [][ClientNext]_vars

\* C17 (as claimed): for every max_retries, detect_document_text makes at
\* most max_retries API calls and either returns the response of a successful
\* call or raises (RuntimeError when the last allowed attempt failed); it
\* never returns without a response.
C17_ResponseOrError ==
  /\ client.pc # "none" => client.api_calls <= client.max_retries
  /\ client.pc = "returned" => client.response # None
  /\ client.pc = "raised" =>
       /\ client.error \in {"RuntimeError", "ValueError"}
       /\ client.error = "RuntimeError" => client.api_calls = client.max_retries

(* ------------------- the merged pass on longer lists -------------------- *)

\* the longest list of lines given to the merged pass
MaxWindowBlocks == 5

\* the four parts of a plate, one of them below the default threshold
WindowCatalog ==
  { [text |-> <<"T","S">>, confidence |-> Conf(90)],
    [text |-> <<"0","8">>, confidence |-> Conf(80)],
    [text |-> <<"F","W">>, confidence |-> Conf(50)],
    [text |-> <<"3","1","3","1">>, confidence |-> Conf(90)] }

\* parse_plates_from_textract has just been called
Called ==
  /\ pc = "start"
  /\ phase = "main"
  /\ self = PlateParser(Zero, NoPattern)
  /\ locals = NoLocals
  /\ inserted = <<>>
  /\ ret = <<>>
  /\ first = <<>>
  /\ formatted_plates = <<>>
  /\ low_confidence_plates = <<>>
  /\ output = EmptyDict
  /\ raised = FALSE
  /\ calls = NoCalls
  /\ client = NoClient
  /\ cli = NoCli
  /\ probe = NoProbe

\* parse_plates_from_textract on a list of parts, with the default arguments
\* and with include_low_confidence
WindowInit ==
  /\ lines \in ListsOver(WindowCatalog, MaxWindowBlocks)
  /\ confidence_threshold = Conf(60)
  /\ pattern = NoPattern
  /\ include_low_confidence \in BOOLEAN
  /\ low_confidence_threshold = Conf(30)
  /\ Called

WindowSpec == WindowInit /\ [][Next]_vars

\* the lines at or above the threshold whose cleaned text is not empty and
\* not noise, in input order
Kept(blocks) ==
  SelectSeq(blocks,
            LAMBDA b : /\ "text" \in DOMAIN b
                       /\ "confidence" \in DOMAIN b
                       /\ ~Less(b.confidence, self.confidence_threshold)
                       /\ clean_raw_text(Strip(b.text, Whitespace)) # <<>>
                       /\ ~is_noise(clean_raw_text(Strip(b.text, Whitespace))))

\* the window kept[i..j] as the merged pass tries it: the cleaned texts joined
\* by spaces, with the mean of the confidences
Tried(kept, i, j) ==
  [text |-> JoinSpace([k \in 1..(j - i + 1) |->
                         clean_raw_text(Strip(kept[i + k - 1].text, Whitespace))]),
   confidence |-> Mean([k \in 1..(j - i + 1) |-> kept[i + k - 1].confidence])]

\* the windows of lo to hi consecutive lines of kept
Windows(kept, lo, hi) ==
  UNION {{Tried(kept, i, i + size - 1) :
            size \in {s \in lo..hi : i + s - 1 <= Len(kept)}} : i \in DOMAIN kept}

\* the attempts of the merged pass of the call
MergedAttempts ==
  {[text |-> a.text, confidence |-> a.confidence] :
     a \in {x \in Attempts : x.block_type = "merged"}}

MaxPassBlocks == 3

\* overlay lines with a payload of 10, of 5 and of 20 characters, a plate far
\* to the right, and the two halves of a plate side by side, the first half
\* also below the default threshold
PassCatalog ==
  { [text |-> <<"P","l","a","t","e",":"," ","A","P","2","9","B","P","2","4","9","6"," ","g","o">>,
     confidence |-> Conf(50)],
    [text |-> <<"P","l","a","t","e",":"," ","A","P","2","9","B">>,
     confidence |-> Conf(90)],
    [text |-> <<"p","l","a","t","e",":","A","P","2","9","B","P","2","4","9","6",
                "A","P","2","9","B","P","2","4","9","6">>,
     confidence |-> Conf(90)],
    [text |-> <<"A","P","2","9","B","P","2","4","9","6">>, confidence |-> Conf(90),
     geometry |-> Box(60, 20)],
    [text |-> <<"T","S","0","8">>, confidence |-> Conf(90), geometry |-> Box(10, 10)],
    [text |-> <<"T","S","0","8">>, confidence |-> Conf(50), geometry |-> Box(10, 10)],
    [text |-> <<"F","W","3","1","3","1">>, confidence |-> Conf(80),
     geometry |-> Box(21, 12)] }

PassInit ==
  /\ lines \in ListsOver(PassCatalog, MaxPassBlocks)
  /\ confidence_threshold = Conf(60)
  /\ pattern = NoPattern
  /\ include_low_confidence \in BOOLEAN
  /\ low_confidence_threshold = Conf(30)
  /\ Called

PassSpec == PassInit /\ [][Next]_vars

\* the attempts of the call made by the pass block_type, in the order made
AttemptsOf(block_type) ==
  SelectSeq(locals.attempts, LAMBDA a : a.block_type = block_type)

\* the lines with a text
WithText(blocks) == SelectSeq(blocks, LAMBDA b : "text" \in DOMAIN b)

\* the lines whose text holds the marker "Plate:" and a payload
Marked(blocks) ==
  SelectSeq(WithText(blocks),
            LAMBDA b : OverlaySearch(Strip(b.text, Whitespace), Alnum) # None)

\* the payload of a marked line
Payload(b) == OverlaySearch(Strip(b.text, Whitespace), Alnum)[1]

\* t holds the marker (in any case), then white space, then payload, and
\* the payload is not followed by a character it could take in
HoldsPayload(t, payload) ==
  \E p \in 1..Len(t), w \in 0..Len(t) :
     /\ p + 5 + w + Len(payload) <= Len(t)
     /\ StrUpper(SubSeq(t, p, p + 5)) = PlateLit
     /\ \A k \in 1..w : t[p + 5 + k] \in Whitespace
     /\ SubSeq(t, p + 6 + w, p + 5 + w + Len(payload)) = payload
     /\ \/ Len(payload) = 15
        \/ p + 5 + w + Len(payload) = Len(t)
        \/ t[p + 6 + w + Len(payload)] \notin Alnum

Above(blocks) ==
  SelectSeq(blocks, LAMBDA b : ~Less(ConfOf(b).value, self.confidence_threshold))

\* the confidences of a list of lines
ConfsOf(blocks) == [k \in DOMAIN blocks |-> ConfOf(blocks[k]).value]

\* C20: the adjacent pass gives merge_adjacent_words the lines at or above
\* the threshold only, and tries every merged string with one confidence, the
\* mean of the confidences of all those lines.
C20_Adjacent ==
  (pc = "returned" /\ lines # <<>>) =>
    /\ [k \in DOMAIN AttemptsOf("adjacent") |-> AttemptsOf("adjacent")[k].text]
         = merge_adjacent_words(Above(lines))
    /\ \A k \in DOMAIN AttemptsOf("adjacent") :
          AttemptsOf("adjacent")[k].confidence = Mean(ConfsOf(Above(lines)))

\* a line below the threshold was left out, and a merged string made of one
\* line was accepted with a confidence that is not that line's
C20_Witness ==
  /\ pc = "returned"
  /\ Len(Above(lines)) >= 2
  /\ Len(Above(lines)) < Len(lines)
  /\ Len(AttemptsOf("adjacent")) >= 2
  /\ \E k \in DOMAIN AttemptsOf("adjacent") :
        /\ AttemptsOf("adjacent")[k].result # None
        /\ \E b \in DOMAIN lines :
              /\ TextOf(lines[b]).value = AttemptsOf("adjacent")[k].text
              /\ ConfOf(lines[b]).value # AttemptsOf("adjacent")[k].confidence


(* ------------------------- merge_adjacent_words ------------------------- *)

\* the longest list of words given to merge_adjacent_words
MaxWords == 3

\* words: close, at the threshold, overlapping, without geometry or without
\* one of its fields, with an empty or blank text or with none; Left and Width
\* are in hundredths, chosen so that the floating-point gap of any two words
\* is on the same side of 0.05 as the exact one
WordCatalog ==
  { [text |-> <<"T","S","0","8">>, geometry |-> Box(0, 5)],
    [text |-> <<"F","W","3","1","3","1">>, geometry |-> Box(9, 12)],
    [text |-> <<"F","W","3","1","3","1">>, geometry |-> Box(10, 12)],
    [text |-> <<"B","P","2","4","9","6">>, geometry |-> Box(2, 10)],
    [text |-> <<"A","P","2","9">>],
    [text |-> <<>>, geometry |-> Box(60, 4)],
    [text |-> <<" ">>, geometry |-> [BoundingBox |-> [Left |-> 70]]],
    [geometry |-> EmptyDict] }

MergeInit ==
  /\ EngineIdle
  /\ calls = NoCalls
  /\ client = NoClient
  /\ cli = NoCli
  /\ probe \in [pc : {"ready"}, words : ListsOver(WordCatalog, MaxWords), out : {<<>>}]

\* PlateParser.merge_adjacent_words(words)
ProbeMerge ==
  /\ probe.pc = "ready"
  /\ probe' = [probe EXCEPT !.pc = "merged", !.out = merge_adjacent_words(probe.words)]
  /\ UNCHANGED <<engine_vars, calls, client, cli>>

MergeNext == ProbeMerge

MergeSpec == MergeInit /\ [][MergeNext]_vars

\* a field of the bounding box of a word, 0 when it or its box is absent
BoxField(word, name) ==
  IF /\ "geometry" \in DOMAIN word
     /\ "BoundingBox" \in DOMAIN word.geometry
     /\ name \in DOMAIN word.geometry.BoundingBox
    THEN word.geometry.BoundingBox[name]
    ELSE 0

\* curLeft - (prevLeft + prevWidth) < 0.05 for the word i and the word before
Joins(words, i) ==
  BoxField(words[i], "Left")
    - (BoxField(words[i - 1], "Left") + BoxField(words[i - 1], "Width")) < 5

\* the indexes at which a group starts
Starts(words) == {i \in DOMAIN words : i = 1 \/ ~Joins(words, i)}

\* the start of the k-th group, and its last word
StartOf(words, k) ==
  CHOOSE s \in Starts(words) : Cardinality({x \in Starts(words) : x <= s}) = k

EndOf(words, k) ==
  IF k = Cardinality(Starts(words)) THEN Len(words) ELSE StartOf(words, k + 1) - 1

WordText(word) == IF "text" \in DOMAIN word THEN word.text ELSE <<>>

\* the texts of the words lo..hi joined by single spaces, stripped
GroupText(words, lo, hi) ==
  Strip(JoinSpace([k \in 1..(hi - lo + 1) |-> WordText(words[lo + k - 1])]), Whitespace)

\* the texts of the groups in input order, the blank ones left out
GroupTexts(words) ==
  SelectSeq([k \in 1..Cardinality(Starts(words)) |->
               GroupText(words, StartOf(words, k), EndOf(words, k))],
            LAMBDA t : t # <<>>)

\* C21: merge_adjacent_words puts a word in the group of the word before it
\* exactly when its left edge is less than 0.05 beyond that word's right
\* edge (absent fields counting as 0), so a negative gap merges and words
\* without geometry make one group; each group is flushed as its texts
\* joined by single spaces.
C21_GapRule ==
  probe.pc = "merged" =>
    /\ probe.out = GroupTexts(probe.words)
    /\ (\A i \in DOMAIN probe.words : "geometry" \notin DOMAIN probe.words[i])
          => Len(probe.out) <= 1

\* a word at exactly 0.05 starts a group, one at 0.04 and one that overlaps
\* its predecessor do not
C21_Witness ==
  /\ probe.pc = "merged"
  /\ Len(probe.words) = 3
  /\ \E i \in 2..3 :
        BoxField(probe.words[i], "Left")
          - (BoxField(probe.words[i - 1], "Left") + BoxField(probe.words[i - 1], "Width")) = 5
  /\ \E i \in 2..3 :
        BoxField(probe.words[i], "Left")
          - (BoxField(probe.words[i - 1], "Left") + BoxField(probe.words[i - 1], "Width")) < 0
  /\ Len(probe.out) = 2

\* the texts of the words, in input order
WordTexts(words) == [k \in DOMAIN words |-> WordText(words[k])]

\* a text with its runs of whitespace made single spaces and its ends stripped
Spaced(s) == Strip(CollapseSpaces(s), Whitespace)

\* no text of the words is empty or has whitespace at an end
AllWritten(words) ==
  \A k \in DOMAIN words :
     WordText(words[k]) # <<>> /\ Strip(WordText(words[k]), Whitespace) = WordText(words[k])

\* C30: merge_adjacent_words partitions its input in order: the emitted
\* strings joined by single spaces are the texts of the words in input order
\* (letter for letter when no text is empty or has whitespace at an end, up
\* to runs of whitespace otherwise), no emitted string is empty or blank or has a space at an
\* end, there are no more strings than words, and no words give no strings.
C30_Partition ==
  probe.pc = "merged" =>
    /\ Spaced(JoinSpace(probe.out)) = Spaced(JoinSpace(WordTexts(probe.words)))
    /\ AllWritten(probe.words) =>
         JoinSpace(probe.out) = JoinSpace(WordTexts(probe.words))
    /\ \A k \in DOMAIN probe.out :
          probe.out[k] # <<>> /\ probe.out[k] = Strip(probe.out[k], Whitespace)
    /\ Len(probe.out) <= Len(probe.words)
    /\ probe.words = <<>> => probe.out = <<>>

\* three words in three groups, one of them blank and left out
C30_Witness ==
  /\ probe.pc = "merged"
  /\ Len(probe.words) = 3
  /\ Cardinality(Starts(probe.words)) = 3
  /\ \E k \in 1..3 : Strip(WordText(probe.words[k]), Whitespace) = <<>>
  /\ Len(probe.out) = 2

(* -------------------------- fix_ocr_confusables ------------------------- *)

\* the longest head of a text given to fix_ocr_confusables
MaxLead == 4

\* the characters of a head: a digit read for a letter, a letter read for a
\* digit, a digit whose letter is itself read for a digit, a hyphen and a
\* letter that no table holds
LeadChars == {"0", "S", "5", "-", "T"}

\* the rest of the text: short, with a lower-case l and a space, and long
Tails ==
  { <<"3","1","3","1">>,
    <<"l"," ","O","3","1","3","1">>,
    <<"B","0","O","5","1","3","1","0","0","0","0","0","0">> }

FixTexts == {lead \o tail : lead \in ListsOver(LeadChars, MaxLead), tail \in Tails}

RepairInit ==
  /\ EngineIdle
  /\ calls = NoCalls
  /\ client = NoClient
  /\ cli = NoCli
  /\ probe \in [pc : {"ready"}, text : FixTexts, out : {<<>>}, again : {<<>>}]

\* PlateParser.fix_ocr_confusables(text)
ProbeFix ==
  /\ probe.pc = "ready"
  /\ probe' = [probe EXCEPT !.pc = "fixed", !.out = fix_ocr_confusables(probe.text)]
  /\ UNCHANGED <<engine_vars, calls, client, cli>>

\* PlateParser.fix_ocr_confusables on the text it has returned
ProbeFixAgain ==
  /\ probe.pc = "fixed"
  /\ probe' = [probe EXCEPT !.pc = "fixed_twice",
                            !.again = fix_ocr_confusables(probe.out)]
  /\ UNCHANGED <<engine_vars, calls, client, cli>>

RepairNext ==
  \/ ProbeFix
  \/ ProbeFixAgain

RepairSpec == RepairInit /\ [][RepairNext]_vars

Separators == {" ", "-"}

\* how many characters of text up to index i are no separators
Position(text, i) == Cardinality({k \in 1..i : text[k] \notin Separators})

\* a character under a table of confusables
Mapped(c, fixes) == IF c \in DOMAIN fixes THEN fixes[c] ELSE c

\* the character the repair leaves at index i
Repaired(text, i) ==
  IF text[i] \in Separators THEN text[i]
  ELSE IF Position(text, i) \in {1, 2} THEN Mapped(text[i], OCR_LETTER_FIXES)
  ELSE IF Position(text, i) \in {3, 4} THEN Mapped(text[i], OCR_DIGIT_FIXES)
  ELSE text[i]

\* C22: fix_ocr_confusables gives the digit-to-letter table to the 1st and
\* 2nd character that is no space or hyphen, the letter-to-digit table to the
\* 3rd and 4th, and returns every other character as it is; a text of fewer
\* than 7 or more than 13 such characters is returned unchanged.
C22_FirstFour ==
  probe.pc = "fixed" =>
    IF Position(probe.text, Len(probe.text)) \in 7..13
      THEN probe.out = [i \in DOMAIN probe.text |-> Repaired(probe.text, i)]
      ELSE probe.out = probe.text

\* all four positions are changed, with separators between them, and a
\* character of the digit table after them is kept
C22_Witness ==
  /\ probe.pc = "fixed"
  /\ \E i \in DOMAIN probe.text : probe.text[i] = "-" /\ Position(probe.text, i) \in 1..3
  /\ \A i \in DOMAIN probe.text :
        Position(probe.text, i) \in 1..4 /\ probe.text[i] \notin Separators
          => probe.out[i] # probe.text[i]
  /\ \E i \in DOMAIN probe.text :
        Position(probe.text, i) > 4 /\ probe.text[i] \in DOMAIN OCR_DIGIT_FIXES
  /\ Position(probe.text, Len(probe.text)) \in 7..13

\* C27: fix_ocr_confusables applied to its own result changes nothing more,
\* and its result has the length of the input with the spaces and hyphens at
\* the same indexes.
C27_RepairIdempotent ==
  probe.pc = "fixed_twice" =>
    /\ probe.again = probe.out
    /\ Len(probe.out) = Len(probe.text)
    /\ \A i \in DOMAIN probe.text :
          /\ probe.text[i] \in Separators => probe.out[i] = probe.text[i]
          /\ probe.out[i] \in Separators => probe.text[i] \in Separators

\* a text with separators that the first repair has changed
C27_Witness ==
  /\ probe.pc = "fixed_twice"
  /\ probe.out # probe.text
  /\ \E i \in DOMAIN probe.text : probe.text[i] = "-"
  /\ \E i \in DOMAIN probe.text : probe.text[i] = " "

(* ------------------------------ _try_match ------------------------------ *)

\* what _try_match may return for a cleaned text: nothing when it is
\* shorter than 5; the text itself; or its repair, when the repair has
\* changed it and passes the layout and the prefix check
Allowed(engine, cleaned, result) ==
  /\ Len(cleaned) < 5 => result = None
  /\ result # None =>
       \/ result[1].text = cleaned
       \/ /\ result[1].text = fix_ocr_confusables(cleaned)
          /\ result[1].text # cleaned
          /\ matches_plate_pattern(engine, result[1].text)
          /\ validate_state_code(result[1].text)

\* C23: _try_match returns None whenever the cleaned text is empty or
\* shorter than 5 characters, with and without a caller's pattern; a
\* candidate whose text is not the cleaned text carries the repaired text,
\* which differs from the cleaned one and passes the layout and the prefix
\* check; every candidate carries the confidence that was passed in.
C23_LengthAndRepair ==
  probe.pc = "tried" =>
    /\ Allowed(probe.self, clean_raw_text(probe.text), probe.out)
    /\ probe.out # None => probe.out[1].confidence = probe.confidence

\* a text of four characters that the caller's pattern and the prefix check
\* accept was rejected
C23_Witness ==
  /\ probe.pc = "tried"
  /\ probe.self.custom_pattern.given
  /\ Len(clean_raw_text(probe.text)) \in 1..4
  /\ Accepts(probe.self, clean_raw_text(probe.text))
  /\ ~is_noise(clean_raw_text(probe.text))
  /\ probe.out = None


(* ----------------------------- clean_raw_text --------------------------- *)

\* what OCR puts before a plate: nothing, a hyphen, a bracket, both, a
\* prefix with a space or a dot, the overlay marker, a space
CleanHeads ==
  { <<>>, <<"-">>, <<"(">>, <<"-","(">>, <<"I","N","D"," ">>, <<"N","O",".">>,
    <<"P","l","a","t","e",":"," ">>, <<" ">> }

CleanBodies ==
  { <<"T","S","0","8","F","W","3","1","3","1">>,
    <<"T","S"," ","0","8","-","F","W",".","3","1","3","1">>,
    <<"I","N","D"," ","T","S","0","8">>,
    <<>> }

CleanTails == { <<>>, <<".">>, <<")","-">>, <<" ","-">> }

RawTexts == {h \o b \o t : h \in CleanHeads, b \in CleanBodies, t \in CleanTails}

CleanInit ==
  /\ EngineIdle
  /\ calls = NoCalls
  /\ client = NoClient
  /\ cli = NoCli
  /\ probe \in [pc : {"ready"}, text : RawTexts, out : {<<>>}, again : {<<>>}]

\* PlateParser.clean_raw_text(text)
ProbeClean ==
  /\ probe.pc = "ready"
  /\ probe' = [probe EXCEPT !.pc = "cleaned", !.out = clean_raw_text(probe.text)]
  /\ UNCHANGED <<engine_vars, calls, client, cli>>

\* PlateParser.clean_raw_text on the text it has returned, as _try_match
\* does with the cleaned texts joined by the merged pass
ProbeCleanAgain ==
  /\ probe.pc = "cleaned"
  /\ probe' = [probe EXCEPT !.pc = "cleaned_twice", !.again = clean_raw_text(probe.out)]
  /\ UNCHANGED <<engine_vars, calls, client, cli>>

CleanNext ==
  \/ ProbeClean
  \/ ProbeCleanAgain

CleanSpec == CleanInit /\ [][CleanNext]_vars

\* a text that starts or ends with a quote, bracket, punctuation character
\* or hyphen
JunkAtEnd(t) ==
  t # <<>> /\ ({t[1], t[Len(t)]} \cap (JunkChars \cup {"-"})) # {}

\* a text from which the prefix loop would strip a prefix
PrefixLeft(t) ==
  \E k \in DOMAIN STRIP_PREFIXES : PrefixFound(t, StrUpper(t), STRIP_PREFIXES[k])

\* C26 (as claimed): clean_raw_text applied to its own result changes
\* nothing: the result has no prefix left to strip, no quote, bracket,
\* punctuation character or hyphen at an end, and no dot.
C26_CleanIdempotent ==
  /\ probe.pc = "cleaned_twice" => probe.again = probe.out
  /\ probe.pc = "cleaned" =>
       /\ ~PrefixLeft(probe.out)
       /\ ~JunkAtEnd(probe.out)
       /\ ~Contains(probe.out, <<".">>)

(* ------------------- the errors of detect_document_text ----------------- *)

\* the failures after which detect_document_text may try again
Retried == {"ThrottlingException", "Exception"}

\* the outcome of the last API call made
LastOutcome == client.outcomes[Len(client.outcomes)]

\* C24: in detect_document_text an InvalidParameter, BadDocument,
\* DocumentTooLarge or UnsupportedDocument exception ends the call at once
\* with ValueError, whatever the attempt, and no API call follows it; after a
\* throttling error or any other exception there is another attempt while
\* fewer than max_retries calls were made, and RuntimeError otherwise.
C24_RejectionsEndTheCall ==
  client.pc # "none" =>
    /\ client.api_calls = Len(client.outcomes)
    /\ \A k \in 1..(Len(client.outcomes) - 1) : client.outcomes[k] \in Retried
    /\ (client.outcomes # <<>> /\ LastOutcome \in Rejections)
          => client.pc = "raised" /\ client.error = "ValueError"
    /\ (client.outcomes # <<>> /\ LastOutcome \in Retried)
          => IF Len(client.outcomes) < client.max_retries
               THEN client.pc \in {"for", "call"} /\ client.error = "None"
               ELSE client.pc = "raised" /\ client.error = "RuntimeError"

\* the second call was rejected while a third attempt was left
C24_Witness ==
  /\ client.pc = "raised"
  /\ client.max_retries = 3
  /\ Len(client.outcomes) = 2
  /\ client.outcomes[1] \in Retried
  /\ client.outcomes[2] \in Rejections
  /\ client.error = "ValueError"

(* ------------------------------ folder mode ----------------------------- *)

\* the largest number of image files in the folder
MaxImages == 3

\* an image: the step that fails on it, if any, and the lines Textract finds
Images ==
  [fails : Failures,
   lines : {<<>>,
            <<[text |-> <<"T","S","0","8","F","W","3","1","3","1">>,
               confidence |-> Conf(90)]>>}]

FolderInit ==
  /\ EngineIdle
  /\ calls = NoCalls
  /\ client = NoClient
  /\ probe = NoProbe
  /\ cli \in [pc : {"folder"},
              confidence : {Conf(60)},
              pattern : {NoPattern, BadPattern},
              image_files : ListsOver(Images, MaxImages),
              results : {<<>>}]

\* process_folder, lines 134-144: no image file ends the run with exit code 1
FolderBegin ==
  /\ cli.pc = "folder"
  /\ cli' = IF cli.image_files = <<>>
              THEN [cli EXCEPT !.pc = "exited"]
              ELSE [cli EXCEPT !.pc = "loop"]
  /\ UNCHANGED <<engine_vars, calls, client, probe>>

\* result['image'] = image_path; the k-th file has the path k
Named(result, image_path) ==
  [f \in DOMAIN result \cup {"image"} |->
     IF f = "image" THEN image_path ELSE result[f]]

\* results.append(result), or the exception of process_image leaving the loop
Appended(c, result) ==
  IF "raised" \in DOMAIN result
    THEN [c EXCEPT !.pc = "raised"]
    ELSE [c EXCEPT !.results = Append(@, Named(result, Len(@) + 1))]

\* process_folder, lines 147-149: one pass of the loop
FolderImage ==
  /\ cli.pc = "loop"
  /\ Len(cli.results) < Len(cli.image_files)
  /\ cli' = Appended(cli, process_image(cli, cli.image_files[Len(cli.results) + 1]))
  /\ UNCHANGED <<engine_vars, calls, client, probe>>

\* process_folder, line 151: return results
FolderReturn ==
  /\ cli.pc = "loop"
  /\ Len(cli.results) = Len(cli.image_files)
  /\ cli' = [cli EXCEPT !.pc = "returned"]
  /\ UNCHANGED <<engine_vars, calls, client, probe>>

FolderNext ==
  \/ FolderBegin
  \/ FolderImage
  \/ FolderReturn

FolderSpec == FolderInit /\ [][FolderNext]_vars

\* a step fails on the image: validation, preprocessing, the OCR call, or
\* the parser on a pattern that does not compile
FailsOn(c, image) == image.fails # "none" \/ c.pattern = BadPattern

\* the result process_image must give for the image
Faithful(c, image, result) ==
  IF FailsOn(c, image)
    THEN /\ result.success = FALSE
         /\ result.error # "None"
         /\ result.plates = <<>>
         /\ result.all_detected_text = <<>>
    ELSE /\ result.success = TRUE
         /\ result.error = "None"

\* C25: process_image never raises for a failing image: it returns success
\* False, the error and no plates and no text when a step fails, and success
\* True with error None otherwise; process_folder gives one result for each
\* image file, in the order of the files, whatever fails.
C25_OneResultPerImage ==
  cli.pc \in {"loop", "returned", "raised"} =>
    /\ cli.pc # "raised"
    /\ Len(cli.results) <= Len(cli.image_files)
    /\ cli.pc = "returned" => Len(cli.results) = Len(cli.image_files)
    /\ \A k \in DOMAIN cli.results :
          /\ cli.results[k].image = k
          /\ Faithful(cli, cli.image_files[k], cli.results[k])

\* the first image fails in the preprocessing, the second gives a plate, the
\* third fails in the OCR call
C25_Witness ==
  /\ cli.pc = "returned"
  /\ Len(cli.results) = 3
  /\ cli.image_files[1].fails = "preprocess"
  /\ ~cli.results[1].success
  /\ cli.results[2].success
  /\ cli.results[2].plates # <<>>
  /\ cli.image_files[3].fails = "ocr"
  /\ ~cli.results[3].success

(* ------------------------- the dedup set of a call ---------------------- *)

\* what _add has stored for an accepted attempt
EntryOf(attempt) ==
  [text |-> attempt.result[1].text, confidence |-> attempt.result[1].confidence,
   block_type |-> attempt.block_type]

\* the accepted attempts of the call whose result has the key norm
AcceptedFor(norm) ==
  {a \in DOMAIN locals.attempts :
     /\ locals.attempts[a].result # None
     /\ NormalizedKey(locals.attempts[a].result[1].text) = norm}

\* the entries of plates are those of the first accepted attempt of each key
FirstKept ==
  pc \in {"pass2", "pass3", "pass4", "sort", "returned"} /\ lines # <<>> =>
    \A k \in DOMAIN locals.plates :
       locals.plates[k] = EntryOf(FirstAccepted(NormalizedKey(locals.plates[k].text)))

\* a pass leaves the entries it finds in plates as they are, and in place
OnlyAppended ==
  pc \in {"pass1", "pass2", "pass3", "pass4"} /\ pc' # "raised" =>
    /\ Len(locals.plates) <= Len(locals'.plates)
    /\ SubSeq(locals'.plates, 1, Len(locals.plates)) = locals.plates

\* C28: after every pass the entries of plates are the text, confidence and
\* block_type of the first accepted attempt of their key, and no pass changes
\* an entry already there: a later accepted attempt with the same key, also
\* one with a higher confidence, changes nothing.
C28_NeverUpdated == []FirstKept /\ [][OnlyAppended]_vars

\* a returned candidate with a confidence below that of a later accepted
\* attempt with its key
C28_Witness ==
  /\ pc = "returned"
  /\ \E k \in DOMAIN ret :
       \E a \in AcceptedFor(NormalizedKey(ret[k].text)) :
          Less(ret[k].confidence, locals.attempts[a].result[1].confidence)

(* ------------------ confidences that are no small fractions ------------- *)

\* the longest list of lines with such confidences
MaxFloatBlocks == 3

\* the binary64 value of the literal 98.1
Float98_1 ==
  [bits |-> <<1,1,0,0,0,1,0,0,0,0,1,1,0,0,1,1,0,0,1,1,0,0,1,1,0,0,1,1,0,0,1,1,0,0,1,1,0,0,1,1,0,0,1,1,0,0,1,1,0,0,1,1>>,
   e |-> -45]

\* the parts of a plate and a whole plate at 98.1, a plate at 60 and an
\* overlay line at 50
FloatCatalog ==
  { [text |-> <<"T","S">>, confidence |-> Float98_1],
    [text |-> <<"0","8"," ","F","W">>, confidence |-> Float98_1],
    [text |-> <<"3","1","3","1">>, confidence |-> Float98_1],
    [text |-> <<"K","A","0","1","A","B","1","2","3","4">>, confidence |-> Float98_1],
    [text |-> <<"A","P","2","9","B","P","2","4","9","6">>, confidence |-> Conf(60)],
    [text |-> <<"P","l","a","t","e",":"," ","A","P","2","9","B","P","2","4","9","6">>,
     confidence |-> Conf(50)] }

\* PlateParser(confidence_threshold=98.1).extract_plates(lines)
FloatInit ==
  /\ lines \in ListsOver(FloatCatalog, MaxFloatBlocks)
  /\ confidence_threshold = Float98_1
  /\ pattern = NoPattern
  /\ include_low_confidence = FALSE
  /\ low_confidence_threshold = Conf(30)
  /\ Called

FloatNext ==
  \/ Construct
  \/ ExtractBegin
  \/ RunPass1
  \/ RunPass2
  \/ RunPass3
  \/ RunPass4
  \/ SortReturn

FloatSpec == FloatInit /\ [][FloatNext]_vars

\* the line is at the threshold exactly and _try_match accepts its text
AtThreshold(block) ==
  /\ "text" \in DOMAIN block
  /\ "confidence" \in DOMAIN block
  /\ block.confidence = self.confidence_threshold
  /\ _try_match(self, block.text, block.confidence) # None

\* C29 (as claimed): every candidate that extract_plates returns with
\* block_type single, merged or adjacent has a confidence at or above the
\* threshold of the engine, only overlay candidates can be below it, and a
\* line whose confidence is the threshold exactly is not left out.
C29_AtOrAboveThreshold ==
  pc = "returned" =>
    /\ \A k \in DOMAIN ret :
          ret[k].block_type \in {"single", "merged", "adjacent"}
            => ~Less(ret[k].confidence, self.confidence_threshold)
    /\ \A i \in DOMAIN lines :
          AtThreshold(lines[i]) =>
            \E k \in DOMAIN ret :
               NormalizedKey(ret[k].text)
                 = NormalizedKey(_try_match(self, lines[i].text, lines[i].confidence)[1].text)
====
